---------------------------- MODULE Spec2Model ----------------------------
(***************************************************************************)
(* Partition schemes and partition scheme discovery of the dataset layer   *)
(* (arrow/dataset/partition.h, partition.cc).                              *)
(*                                                                         *)
(* A string is a sequence of one-character strings, so that splitting a    *)
(* path at "/" and a segment at "=" are computed character by character.   *)
(***************************************************************************)
EXTENDS Integers, Sequences, FiniteSets, TLC

VARIABLES
    variant_,      \* PartitionSchemeOrDiscovery::variant_
    pc,            \* "idle" | "loop" (inside Parse(path)) | "done" (Parse returned) | "finished" (Finish returned) | "inspected" (Inspect returned)
    path,          \* the argument of the running / last Parse(path)
    segments,      \* SplitAbstractPath(path), the range of the for loop
    it,            \* the for loop's position in segments (1-based)
    i,             \* the local `int i` of Parse(path)
    expressions,   \* the local ExpressionVector of Parse(path)
    calls,         \* the per-segment Parse(segment, i) calls made by the running Parse(path)
    result,        \* what Parse(path) returned
    finish_schema, \* the argument of the last Finish(schema)
    finished,      \* what Finish(schema) returned
    inspect_paths, \* the argument of the last Inspect(paths)
    inspected,     \* what Inspect(paths) returned
    callers,       \* per concurrent caller of Parse(path) on the scheme held: its locals
    sources,       \* the FileSource objects constructed
    built,         \* per FileSource: the constructor call that built it
    compared,      \* the last operator== calls and what they returned
    accessed,      \* the last reading of a FileSource's accessors
    datasource,    \* the FileSystemDataSource made
    made,          \* the FileSystemDataSource::Make call that made it
    scan,          \* the DataFragmentIterator of the running / last GetFragmentsImpl call
    previous,      \* the options and the fragments of the GetFragmentsImpl call before it
    last_stored,   \* the last pointer stored in the PartitionSchemeOrDiscovery, and what it held before
    creator,       \* the members of the DataFrameBlockCreator
    convert        \* the running / last DataFrameBlockCreator::Convert call

\* the locals of the one caller of the sequential specification
callVars == <<pc, path, segments, it, i, expressions, calls, result,
              finish_schema, finished, inspect_paths, inspected>>

\* what the operations of the sequential specification have no access to
otherVars == <<callers, sources, built, compared, accessed, datasource, made,
               scan, previous, last_stored, creator, convert>>

vars == <<variant_, callVars, otherVars>>

---------------------------------------------------------------------------
(* Bounds of the model *)

\* longest path string of the exhaustive path set
MaxPathLen == 5

\* longest field-name list of a schema-positional discovery
MaxFieldNames == 2

\* most fields of a schema handed to Finish
MaxSchemaFields == 3

\* most paths handed to one Inspect(paths)
MaxInspectPaths == 2

\* the concurrent callers of Parse(path) on one scheme
NumCallers == 2

\* most file stats handed to FileSystemDataSource::Make
MaxStats == 3

\* most partition expressions handed to FileSystemDataSource::Make
MaxPartitions == 4

---------------------------------------------------------------------------
(* Strings *)

kSep == "/"

PathAlphabet == {"/", "=", "a", "b", "1"}

Digits == <<"0", "1", "2", "3", "4", "5", "6", "7", "8", "9">>

IsDigit(c) == \E k \in 1..10 : Digits[k] = c

DigitValue(c) == (CHOOSE k \in 1..10 : Digits[k] = c) - 1

\* s.substr(pos): the characters of s from 0-based position pos on
SubstrFrom(s, pos) == SubSeq(s, pos + 1, Len(s))

\* s.substr(0, n)
SubstrTo(s, n) == SubSeq(s, 1, n)

\* s.find_first_of(c): the 0-based position of the first c, or -1 (npos)
FindFirstOf(s, c) ==
    IF \E k \in 1..Len(s) : s[k] = c
    THEN (CHOOSE k \in 1..Len(s) : s[k] = c /\ \A j \in 1..(k - 1) : s[j] # c) - 1
    ELSE -1

\* Split of a separator-free-at-both-ends view into its parts; empty parts
\* between two adjacent separators are kept.
RECURSIVE SplitParts(_)
SplitParts(v) ==
    LET end == FindFirstOf(v, kSep)
    IN  IF end = -1
        THEN <<v>>
        ELSE <<SubstrTo(v, end)>> \o SplitParts(SubstrFrom(v, end + 1))

\* fs::internal::SplitAbstractPath: one trailing and one leading separator
\* are stripped, the empty path has no segment.
SplitAbstractPath(s) ==
    LET v1 == IF Len(s) > 0 /\ s[Len(s)] = kSep THEN SubstrTo(s, Len(s) - 1) ELSE s
        v2 == IF Len(v1) > 0 /\ v1[1] = kSep THEN SubstrFrom(v1, 1) ELSE v1
    IN  IF Len(v2) = 0 THEN <<>> ELSE SplitParts(v2)

---------------------------------------------------------------------------
(* Scalars, types and schemas *)

IntTypes == {"int8", "int16", "int32"}

\* std::numeric_limits<value_type>::max()
MaxValue(type) ==
    CASE type = "int8" -> 127
      [] type = "int16" -> 32767
      [] type = "int32" -> 2147483647

MakeScalar(type, n, s) == [type |-> type, int |-> n, str |-> s]

NullScalar == MakeScalar("null", 0, <<>>)

BooleanScalar(b) == MakeScalar("bool", IF b THEN 1 ELSE 0, <<>>)

RECURSIVE DecimalValue(_)
DecimalValue(s) ==
    IF Len(s) = 0 THEN 0
    ELSE 10 * DecimalValue(SubstrTo(s, Len(s) - 1)) + DigitValue(s[Len(s)])

AllDigits(s) == \A k \in 1..Len(s) : IsDigit(s[k])

\* Result<std::shared_ptr<Scalar>>
ScalarOk(scalar) == [status |-> "OK", detail |-> <<>>, scalar |-> scalar]

ScalarError(repr) == [status |-> "TypeError", detail |-> repr, scalar |-> NullScalar]

\* the digits of s after its leading zeros
RECURSIVE SkipLeadingZeros(_)
SkipLeadingZeros(s) ==
    IF Len(s) > 0 /\ s[1] = "0" THEN SkipLeadingZeros(Tail(s)) ELSE s

\* the most decimal digits a value of a 32-bit type has
MaxDigits == 10

\* whether the number written by the digits `significant` (no leading zero) is
\* at most max, or at most max + 1 for a negative number; decided on the
\* leading digits and the last digit, as the overflow check of the digit loop
FitsType(significant, max, negative) ==
    \/ Len(significant) = 0
    \/ /\ Len(significant) <= MaxDigits
       /\ LET leading == DecimalValue(SubstrTo(significant, Len(significant) - 1))
              last == DigitValue(significant[Len(significant)])
              allowance == (max % 10) + (IF negative THEN 1 ELSE 0)
          IN  \/ leading < max \div 10
              \/ leading = max \div 10 /\ last <= allowance

\* Scalar::Parse(type, repr): a decimal integer that fits the type's width,
\* with an optional leading minus; any string for utf8.
ScalarParse(type, repr) ==
    IF type = "utf8" THEN ScalarOk(MakeScalar("utf8", 0, repr))
    ELSE IF type \in IntTypes
    THEN LET negative == Len(repr) > 0 /\ repr[1] = "-"
             digits == IF negative THEN Tail(repr) ELSE repr
             significant == SkipLeadingZeros(digits)
         IN  IF Len(digits) > 0 /\ AllDigits(digits)
                /\ FitsType(significant, MaxValue(type), negative)
             THEN ScalarOk(MakeScalar(type,
                                      IF negative
                                      THEN 0 - DecimalValue(significant)
                                      ELSE DecimalValue(significant),
                                      <<>>))
             ELSE ScalarError(repr)
    ELSE ScalarError(repr)

Field(name, type) == [name |-> name, type |-> type]

NullField == Field(<<>>, "null")

\* Schema::num_fields
NumFields(schema) == Len(schema)

FieldNamesOf(schema) == {schema[k].name : k \in 1..Len(schema)}

\* Schema::GetFieldIndex(name): 0-based, -1 when no field has the name
GetFieldIndex(schema, name) ==
    IF \E k \in 1..Len(schema) : schema[k].name = name
    THEN (CHOOSE k \in 1..Len(schema) :
              schema[k].name = name /\ \A j \in 1..(k - 1) : schema[j].name # name) - 1
    ELSE -1

\* Schema::GetFieldByName(name): the field, or nullptr
GetFieldByName(schema, name) ==
    IF GetFieldIndex(schema, name) = -1 THEN NullField
    ELSE schema[GetFieldIndex(schema, name) + 1]

\* SchemaFromColumnNames(input, column_names): the fields of input named by
\* column_names, in the order of column_names; names input lacks are skipped.
RECURSIVE SchemaFromColumnNames(_, _)
SchemaFromColumnNames(input, column_names) ==
    IF Len(column_names) = 0 THEN <<>>
    ELSE LET field == GetFieldByName(input, Head(column_names))
             rest == SchemaFromColumnNames(input, Tail(column_names))
         IN  IF field = NullField THEN rest ELSE <<field>> \o rest

---------------------------------------------------------------------------
(* Expressions *)

MakeExpression(kind, name, value, operands) ==
    [kind |-> kind, name |-> name, value |-> value, operands |-> operands]

NullExpression == MakeExpression("null", <<>>, NullScalar, <<>>)

\* scalar(true)
TrueExpression == MakeExpression("scalar", <<>>, BooleanScalar(TRUE), <<>>)

\* equal(field_ref(name), scalar(value))
EqualExpression(name, value) == MakeExpression("equal", name, value, <<>>)

\* and_(lhs, rhs)
AndExpression(lhs, rhs) == MakeExpression("and", <<>>, NullScalar, <<lhs, rhs>>)

\* Expression::Equals(true)
EqualsTrue(expr) == expr.kind = "scalar" /\ expr.value = BooleanScalar(TRUE)

\* and_(ExpressionVector): the left fold of the binary conjunction; scalar(true)
\* for no operand.
RECURSIVE and_(_)
and_(subexpressions) ==
    IF Len(subexpressions) = 0 THEN TrueExpression
    ELSE IF Len(subexpressions) = 1 THEN subexpressions[1]
    ELSE AndExpression(and_(SubstrTo(subexpressions, Len(subexpressions) - 1)),
                       subexpressions[Len(subexpressions)])

Range(seq) == {seq[k] : k \in 1..Len(seq)}

\* the operands of a conjunction, left to right; an expression that is no
\* conjunction is its own single operand
RECURSIVE Conjuncts(_)
Conjuncts(expr) ==
    IF expr.kind = "and"
    THEN Conjuncts(expr.operands[1]) \o Conjuncts(expr.operands[2])
    ELSE <<expr>>

\* Result<std::shared_ptr<Expression>>
Ok(expr) == [status |-> "OK", detail |-> <<>>, expr |-> expr]

Error(status, detail) == [status |-> status, detail |-> detail, expr |-> NullExpression]

NoResult == [status |-> "none", detail |-> <<>>, expr |-> NullExpression]

---------------------------------------------------------------------------
(* Partition schemes *)

MakeScheme(kind, schema, dictionaries) ==
    [kind |-> kind, schema |-> schema, dictionaries |-> dictionaries]

NullScheme == MakeScheme("null", <<>>, <<>>)

\* PartitionScheme::Default(): the schema is empty
DefaultPartitionScheme == MakeScheme("default", <<>>, <<>>)

SegmentDictionaryPartitionScheme(schema, dictionaries) ==
    MakeScheme("segment_dictionary", schema, dictionaries)

SchemaPartitionScheme(schema) == MakeScheme("schema", schema, <<>>)

HivePartitionScheme(schema) == MakeScheme("hive", schema, <<>>)

\* FunctionPartitionScheme(schema, impl): the callable is FunctionImpl
FunctionPartitionScheme(schema) == MakeScheme("function", schema, <<>>)

\* PartitionKeysScheme::Key, and util::nullopt
MakeKey(name, value) == [present |-> TRUE, name |-> name, value |-> value]

NullOpt == [present |-> FALSE, name |-> <<>>, value |-> <<>>]

\* DefaultPartitionScheme::Parse(segment, i)
DefaultParse(segment, pos) == Ok(TrueExpression)

\* static_cast<size_t>(i) < size: a negative i converts to a value above any size
IndexBelow(pos, size) == pos >= 0 /\ pos < size

\* SegmentDictionaryPartitionScheme::Parse(segment, i), with the last
\* dictionary out of reach
SegmentDictionaryParseOffByOne(dictionaries, segment, pos) ==
    IF IndexBelow(pos, Len(dictionaries) - 1) /\ segment \in DOMAIN dictionaries[pos + 1]
    THEN Ok(dictionaries[pos + 1][segment])
    ELSE Ok(TrueExpression)

\* SegmentDictionaryPartitionScheme::Parse(segment, i)
SegmentDictionaryParse(dictionaries, segment, pos) ==
    IF IndexBelow(pos, Len(dictionaries)) /\ segment \in DOMAIN dictionaries[pos + 1]
    THEN Ok(dictionaries[pos + 1][segment])
    ELSE Ok(TrueExpression)

\* PartitionKeysScheme::ConvertKey(key, schema), with the key's value taken as
\* it is, not parsed as the field's type
ConvertKeyUnparsed(key, schema) ==
    LET field == GetFieldByName(schema, key.name)
    IN  IF field = NullField THEN Ok(TrueExpression)
        ELSE LET converted == ScalarParse(field.type, key.value)
             IN  IF converted.status # "OK"
                 THEN Error(converted.status, converted.detail)
                 ELSE Ok(EqualExpression(field.name, MakeScalar("utf8", 0, key.value)))

\* PartitionKeysScheme::ConvertKey(key, schema), with a parse that forgets the
\* schema lookup's miss and fails on it
ConvertKeyFailingOnAbsentField(key, schema) ==
    LET field == GetFieldByName(schema, key.name)
        converted == ScalarParse(field.type, key.value)
    IN  IF converted.status # "OK" THEN Error(converted.status, converted.detail)
        ELSE Ok(EqualExpression(field.name, converted.scalar))

\* PartitionKeysScheme::ConvertKey(key, schema), with the failure of the
\* scalar parse swallowed
ConvertKeySwallowingError(key, schema) ==
    LET field == GetFieldByName(schema, key.name)
        converted == IF field = NullField THEN ScalarError(key.value)
                     ELSE ScalarParse(field.type, key.value)
    IN  IF field = NullField \/ converted.status # "OK" THEN Ok(TrueExpression)
        ELSE Ok(EqualExpression(field.name, converted.scalar))

\* PartitionKeysScheme::ConvertKey(key, schema)
ConvertKey(key, schema) ==
    LET field == GetFieldByName(schema, key.name)
    IN  IF field = NullField THEN Ok(TrueExpression)
        ELSE LET converted == ScalarParse(field.type, key.value)
             IN  IF converted.status # "OK"
                 THEN Error(converted.status, converted.detail)
                 ELSE Ok(EqualExpression(field.name, converted.scalar))

\* SchemaPartitionScheme::ParseKey(segment, i), with the bound check off by one
SchemaParseKeyOffByOne(schema, segment, pos) ==
    IF pos + 1 >= NumFields(schema) THEN NullOpt
    ELSE MakeKey(schema[pos + 1].name, segment)

\* SchemaPartitionScheme::ParseKey(segment, i)
SchemaParseKey(schema, segment, pos) ==
    IF pos >= NumFields(schema) THEN NullOpt
    ELSE MakeKey(schema[pos + 1].name, segment)

\* s.find_last_of('='), or -1
FindLastOfEquals(s) ==
    IF \E k \in 1..Len(s) : s[k] = "="
    THEN (CHOOSE k \in 1..Len(s) : s[k] = "=" /\ \A j \in (k + 1)..Len(s) : s[j] # "=") - 1
    ELSE -1

\* HivePartitionScheme::ParseKey(segment), splitting at the last `=`
HiveParseKeyAtLast(segment) ==
    LET name_end == FindLastOfEquals(segment)
    IN  IF name_end = -1 THEN NullOpt
        ELSE MakeKey(SubstrTo(segment, name_end), SubstrFrom(segment, name_end + 1))

\* HivePartitionScheme::ParseKey(segment), with a segment without `=` taken
\* as a key of empty value
HiveParseKeyBareName(segment) ==
    LET name_end == FindFirstOf(segment, "=")
    IN  IF name_end = -1 THEN MakeKey(segment, <<>>)
        ELSE MakeKey(SubstrTo(segment, name_end), SubstrFrom(segment, name_end + 1))

\* HivePartitionScheme::ParseKey(segment)
HiveParseKeyStatic(segment) ==
    LET name_end == FindFirstOf(segment, "=")
    IN  IF name_end = -1 THEN NullOpt
        ELSE MakeKey(SubstrTo(segment, name_end), SubstrFrom(segment, name_end + 1))

\* HivePartitionScheme::ParseKey(segment, i)
HiveParseKey(segment, pos) == HiveParseKeyStatic(segment)

\* the virtual PartitionKeysScheme::ParseKey(segment, i)
ParseKey(scheme, segment, pos) ==
    CASE scheme.kind = "schema" -> SchemaParseKey(scheme.schema, segment, pos)
      [] scheme.kind = "hive" -> HiveParseKey(segment, pos)
      [] OTHER -> NullOpt

\* PartitionKeysScheme::Parse(segment, i)
PartitionKeysParse(scheme, segment, pos) ==
    LET key == ParseKey(scheme, segment, pos)
    IN  IF key.present THEN ConvertKey(key, scheme.schema) ELSE Ok(TrueExpression)

\* a callable handed to FunctionPartitionScheme: it rejects the empty segment,
\* constrains field b at the odd positions and nothing at the even ones
FunctionImpl(segment, pos) ==
    IF Len(segment) = 0 THEN Error("Invalid", segment)
    ELSE IF pos % 2 = 1
    THEN Ok(EqualExpression(<<"b">>, MakeScalar("utf8", 0, segment)))
    ELSE Ok(TrueExpression)

\* FunctionPartitionScheme::Parse(segment, i)
FunctionParse(segment, pos) == FunctionImpl(segment, pos)

\* the virtual PartitionScheme::Parse(segment, i)
ParseSegment(scheme, segment, pos) ==
    CASE scheme.kind = "default" -> DefaultParse(segment, pos)
      [] scheme.kind = "function" -> FunctionParse(segment, pos)
      [] scheme.kind = "segment_dictionary" ->
             SegmentDictionaryParse(scheme.dictionaries, segment, pos)
      [] scheme.kind \in {"schema", "hive"} -> PartitionKeysParse(scheme, segment, pos)

---------------------------------------------------------------------------
(* Partition scheme discovery *)

MakeDiscovery(kind, field_names) == [kind |-> kind, field_names |-> field_names]

NullDiscovery == MakeDiscovery("null", <<>>)

\* SchemaPartitionScheme::MakeDiscovery(field_names)
SchemaPartitionSchemeDiscovery(field_names) == MakeDiscovery("schema", field_names)

\* HivePartitionScheme::MakeDiscovery()
HivePartitionSchemeDiscovery == MakeDiscovery("hive", <<>>)

\* Result<std::shared_ptr<PartitionScheme>>
FinishOk(scheme) == [status |-> "OK", detail |-> <<>>, scheme |-> scheme]

FinishError(status, detail) == [status |-> status, detail |-> detail, scheme |-> NullScheme]

NoFinish == [status |-> "none", detail |-> <<>>, scheme |-> NullScheme]

\* the field names of field_names_ that schema lacks, in the order of field_names_
MissingFieldNames(field_names, schema) ==
    SelectSeq(field_names, LAMBDA name : GetFieldIndex(schema, name) = -1)

\* SchemaPartitionSchemeDiscovery::Finish(schema), with only the first field
\* name checked
SchemaDiscoveryFinishFirstOnly(field_names, schema) ==
    IF Len(field_names) > 0 /\ GetFieldIndex(schema, field_names[1]) = -1
    THEN FinishError("TypeError", field_names[1])
    ELSE FinishOk(SchemaPartitionScheme(SchemaFromColumnNames(schema, field_names)))

\* SchemaPartitionSchemeDiscovery::Finish(schema), with the scheme built on the
\* schema as supplied instead of on its restriction to field_names_
SchemaDiscoveryFinishKeepingAll(field_names, schema) ==
    LET missing == MissingFieldNames(field_names, schema)
    IN  IF Len(missing) > 0
        THEN FinishError("TypeError", missing[1])
        ELSE FinishOk(SchemaPartitionScheme(schema))

\* SchemaPartitionSchemeDiscovery::Finish(schema)
SchemaDiscoveryFinish(field_names, schema) ==
    LET missing == MissingFieldNames(field_names, schema)
    IN  IF Len(missing) > 0
        THEN FinishError("TypeError", missing[1])
        ELSE FinishOk(SchemaPartitionScheme(SchemaFromColumnNames(schema, field_names)))

\* HivePartitionSchemeDiscovery::Finish(schema), with the scheme of the
\* positional discovery built in place of the Hive one
HiveDiscoveryFinishAsPositional(schema) == FinishOk(SchemaPartitionScheme(schema))

\* HivePartitionSchemeDiscovery::Finish(schema)
HiveDiscoveryFinish(schema) == FinishOk(HivePartitionScheme(schema))

\* the virtual PartitionSchemeDiscovery::Finish(schema)
DiscoveryFinish(discovery, schema) ==
    CASE discovery.kind = "schema" -> SchemaDiscoveryFinish(discovery.field_names, schema)
      [] discovery.kind = "hive" -> HiveDiscoveryFinish(schema)

\* the characters of the model's strings in the order of their char values
CharOrder ==
    <<"-", ".", "/", "0", "1", "2", "3", "4", "5", "6", "7", "8", "9", "=",
      "a", "b", "c", "d", "e", "f", "g", "h", "i", "j", "k", "l", "m", "n",
      "o", "p", "q", "r", "s", "t", "u", "v", "w", "x", "y", "z">>

CharValue(c) == CHOOSE k \in 1..Len(CharOrder) : CharOrder[k] = c

\* std::less<std::string>, the order of the keys of a std::map: the first
\* position where the strings differ decides, a proper prefix is smaller
StringLess(a, b) ==
    \E k \in 1..Len(b) :
        /\ k - 1 <= Len(a)
        /\ \A j \in 1..(k - 1) : a[j] = b[j]
        /\ \/ k = Len(a) + 1
           \/ CharValue(a[k]) < CharValue(b[k])

\* std::map<std::string, std::vector<std::string>>: the entries {first, second}
\* in the order of iteration, that is by increasing key
EmptyMap == <<>>

MapHas(map, name) == \E k \in 1..Len(map) : map[k].first = name

\* name_to_values[name].push_back(value): a key not yet in the map is inserted
\* (with an empty vector) at its place in the order of the keys
MapPushBack(map, name, value) ==
    IF MapHas(map, name)
    THEN [k \in 1..Len(map) |->
             IF map[k].first = name
             THEN [first |-> name, second |-> Append(map[k].second, value)]
             ELSE map[k]]
    ELSE LET before == SelectSeq(map, LAMBDA e : StringLess(e.first, name))
             after == SelectSeq(map, LAMBDA e : StringLess(name, e.first))
         IN  before \o <<[first |-> name, second |-> <<value>>]>> \o after

\* repr.find_first_not_of("0123456789"): the 0-based position of the first
\* character that is no digit, or -1 (npos)
FindFirstNotDigit(repr) ==
    IF \E k \in 1..Len(repr) : ~IsDigit(repr[k])
    THEN (CHOOSE k \in 1..Len(repr) :
             ~IsDigit(repr[k]) /\ \A j \in 1..(k - 1) : IsDigit(repr[j])) - 1
    ELSE -1

\* AllIntegral with std::any_of in place of std::all_of
AnyIntegral(reprs) ==
    \E k \in 1..Len(reprs) : FindFirstNotDigit(reprs[k]) = -1

\* AllIntegral(reprs)
AllIntegral(reprs) ==
    \A k \in 1..Len(reprs) : FindFirstNotDigit(reprs[k]) = -1

\* InferSchema(name_to_values): one field per entry of the map, in the map's
\* order of iteration
InferSchema(name_to_values) ==
    [k \in 1..Len(name_to_values) |->
        Field(name_to_values[k].first,
              IF AllIntegral(name_to_values[k].second) THEN "int32" ELSE "utf8")]

\* the inner loop of SchemaPartitionSchemeDiscovery::Inspect over the segments
\* of one path, from segment number `at` (1-based) with field_index segments
\* already taken
RECURSIVE SchemaInspectSegments(_, _, _, _, _)
SchemaInspectSegments(name_to_values, field_names, segs, at, field_index) ==
    IF at > Len(segs) \/ field_index = Len(field_names)
    THEN name_to_values
    ELSE SchemaInspectSegments(
             MapPushBack(name_to_values, field_names[field_index + 1], segs[at]),
             field_names, segs, at + 1, field_index + 1)

\* the outer loop of SchemaPartitionSchemeDiscovery::Inspect over the paths
RECURSIVE SchemaInspectPaths(_, _, _, _)
SchemaInspectPaths(name_to_values, field_names, paths, at) ==
    IF at > Len(paths)
    THEN name_to_values
    ELSE SchemaInspectPaths(
             SchemaInspectSegments(name_to_values, field_names,
                                   SplitAbstractPath(paths[at]), 1, 0),
             field_names, paths, at + 1)

\* SchemaPartitionSchemeDiscovery::Inspect(paths)
SchemaDiscoveryInspect(field_names, paths) ==
    SchemaFromColumnNames(
        InferSchema(SchemaInspectPaths(EmptyMap, field_names, paths, 1)),
        field_names)

\* the inner loop of HivePartitionSchemeDiscovery::Inspect over the segments of
\* one path
RECURSIVE HiveInspectSegments(_, _, _)
HiveInspectSegments(name_to_values, segs, at) ==
    IF at > Len(segs)
    THEN name_to_values
    ELSE LET key == HiveParseKeyStatic(segs[at])
         IN  HiveInspectSegments(
                 IF key.present
                 THEN MapPushBack(name_to_values, key.name, key.value)
                 ELSE name_to_values,
                 segs, at + 1)

\* the outer loop of HivePartitionSchemeDiscovery::Inspect over the paths
RECURSIVE HiveInspectPaths(_, _, _)
HiveInspectPaths(name_to_values, paths, at) ==
    IF at > Len(paths)
    THEN name_to_values
    ELSE HiveInspectPaths(
             HiveInspectSegments(name_to_values, SplitAbstractPath(paths[at]), 1),
             paths, at + 1)

\* HivePartitionSchemeDiscovery::Inspect(paths)
HiveDiscoveryInspect(paths) == InferSchema(HiveInspectPaths(EmptyMap, paths, 1))

\* Result<std::shared_ptr<Schema>>
InspectOk(schema) == [status |-> "OK", schema |-> schema]

NoInspect == [status |-> "none", schema |-> <<>>]

\* the virtual PartitionSchemeDiscovery::Inspect(paths)
DiscoveryInspect(discovery, paths) ==
    CASE discovery.kind = "schema" ->
             InspectOk(SchemaDiscoveryInspect(discovery.field_names, paths))
      [] discovery.kind = "hive" -> InspectOk(HiveDiscoveryInspect(paths))

---------------------------------------------------------------------------
(* FileSource (arrow/dataset/file_base.h) *)

\* enum SourceType { PATH, BUFFER }, also the index of the alternative impl_ holds
PATH == 0

BUFFER == 1

NULLPTR == 0

\* std::shared_ptr<Buffer>: the address of the Buffer and its bytes
MakeBuffer(address, bytes) == [address |-> address, bytes |-> bytes]

NullBuffer == MakeBuffer(NULLPTR, <<>>)

\* Buffer::Equals(other): the same bytes
BufferEquals(a, b) == a.bytes = b.bytes

\* the static buffer_path of FileSource::path()
BufferPath == <<"<", "B", "u", "f", "f", "e", "r", ">">>

\* util::variant<PathAndFileSystem, std::shared_ptr<Buffer>>; the members of
\* the alternative not held have no value, written as the empty string and the
\* null pointers
MakeImpl(index, p, filesystem, buffer) ==
    [index |-> index, path |-> p, filesystem |-> filesystem, buffer |-> buffer]

\* FileSource(std::string path, fs::FileSystem* filesystem, compression)
FileSourceFromPath(p, filesystem, compression) ==
    [impl_ |-> MakeImpl(PATH, p, filesystem, NullBuffer),
     compression_ |-> compression]

\* FileSource(std::shared_ptr<Buffer> buffer, compression)
FileSourceFromBuffer(buffer, compression) ==
    [impl_ |-> MakeImpl(BUFFER, <<>>, NULLPTR, buffer),
     compression_ |-> compression]

\* FileSource::type()
FileSourceType(source) == source.impl_.index

\* FileSource::compression()
FileSourceCompression(source) == source.compression_

\* FileSource::path() with an empty string, not buffer_path, for a buffer
FileSourcePathOrEmpty(source) ==
    IF FileSourceType(source) = PATH THEN source.impl_.path ELSE <<>>

\* FileSource::path()
FileSourcePath(source) ==
    IF FileSourceType(source) = PATH THEN source.impl_.path ELSE BufferPath

\* FileSource::filesystem()
FileSourceFilesystem(source) ==
    IF FileSourceType(source) = PATH THEN source.impl_.filesystem ELSE NULLPTR

\* FileSource::buffer()
FileSourceBuffer(source) ==
    IF FileSourceType(source) = BUFFER THEN source.impl_.buffer ELSE NullBuffer

\* FileSource::operator== with the paths compared and the filesystems not
FileSourceEqualsByPathOnly(a, b) ==
    IF FileSourceType(a) # FileSourceType(b) THEN FALSE
    ELSE IF FileSourceType(a) = PATH
         THEN FileSourcePath(a) = FileSourcePath(b)
         ELSE BufferEquals(FileSourceBuffer(a), FileSourceBuffer(b))

\* an equality that compares the compression as well
FileSourceEqualsWithCompression(a, b) ==
    IF FileSourceType(a) # FileSourceType(b) THEN FALSE
    ELSE IF FileSourceCompression(a) # FileSourceCompression(b) THEN FALSE
    ELSE IF FileSourceType(a) = PATH
         THEN /\ FileSourcePath(a) = FileSourcePath(b)
              /\ FileSourceFilesystem(a) = FileSourceFilesystem(b)
         ELSE BufferEquals(FileSourceBuffer(a), FileSourceBuffer(b))

\* FileSource::operator==
FileSourceEquals(a, b) ==
    IF FileSourceType(a) # FileSourceType(b) THEN FALSE
    ELSE IF FileSourceType(a) = PATH
         THEN /\ FileSourcePath(a) = FileSourcePath(b)
              /\ FileSourceFilesystem(a) = FileSourceFilesystem(b)
         ELSE BufferEquals(FileSourceBuffer(a), FileSourceBuffer(b))

\* a constructor call: the constructor and its arguments
BuiltFromPath(p, filesystem, compression) ==
    [from |-> "path", path |-> p, filesystem |-> filesystem,
     buffer |-> NullBuffer, compression |-> compression]

BuiltFromBuffer(buffer, compression) ==
    [from |-> "buffer", path |-> <<>>, filesystem |-> NULLPTR,
     buffer |-> buffer, compression |-> compression]

\* no operator== call was made
NotCompared == [lhs |-> 0, rhs |-> 0, equal |-> FALSE, reverse |-> FALSE, self |-> FALSE]

\* no accessor was read
NotAccessed ==
    [source |-> 0, type |-> PATH, path |-> <<>>, filesystem |-> NULLPTR,
     buffer |-> NullBuffer, compression |-> "UNCOMPRESSED"]

---------------------------------------------------------------------------
(* FileSystemDataSource (arrow/dataset/file_base.h) *)

\* fs::FileStats: a path and whether it is a file or a directory
FileStats(p, type) == [path |-> p, type |-> type]

\* a file or directory together with the partition expression associated with it
Associated(stats, expr) == [stats |-> stats, expr |-> expr]

\* the stable sort by path of PathForest::Make, each expression moving with
\* its stats
RECURSIVE SortByPath(_)
SortByPath(pairs) ==
    IF pairs = <<>> THEN <<>>
    ELSE LET first == Head(pairs)
             rest == SortByPath(Tail(pairs))
         IN  SelectSeq(rest, LAMBDA e : StringLess(e.stats.path, first.stats.path))
                 \o <<first>>
                 \o SelectSeq(rest, LAMBDA e : ~StringLess(e.stats.path, first.stats.path))

\* the partition vector with absent entries added only, a surplus kept
PadPartitions(partitions, size) ==
    [k \in 1..(IF Len(partitions) > size THEN Len(partitions) ELSE size) |->
        IF k <= Len(partitions) THEN partitions[k] ELSE TrueExpression]

\* the normalisation of the partition vector to one entry per node: the nodes
\* not covered get scalar(true), a surplus of entries is dropped
NormalizePartitions(partitions, size) ==
    [k \in 1..size |-> IF k <= Len(partitions) THEN partitions[k] ELSE TrueExpression]

\* fs::PathForest::Make(stats, &partitions): the forest's nodes are the stats
\* in the order of their paths, and the expressions are put in the same order
PathForestMake(stats, partitions) ==
    LET covered == NormalizePartitions(partitions, Len(stats))
        sorted == SortByPath([k \in 1..Len(stats) |-> Associated(stats[k], covered[k])])
    IN  [forest |-> [k \in 1..Len(sorted) |-> sorted[k].stats],
         partitions |-> [k \in 1..Len(sorted) |-> sorted[k].expr]]

\* the FileSystemDataSource constructor: the members as handed over
FileSystemDataSource(filesystem, forest, file_partitions, source_partition, format) ==
    [filesystem_ |-> filesystem, forest_ |-> forest, partitions_ |-> file_partitions,
     partition_expression_ |-> source_partition, format_ |-> format]

NullDataSource == FileSystemDataSource(NULLPTR, <<>>, <<>>, NullExpression, "")

\* FileSystemDataSource::Make(filesystem, forest, partitions, source_partition, format)
MakeFromForest(filesystem, forest, partitions, source_partition, format) ==
    FileSystemDataSource(filesystem, forest,
                         NormalizePartitions(partitions, Len(forest)),
                         source_partition, format)

\* FileSystemDataSource::Make(filesystem, stats, partitions, source_partition,
\* format) with the stats sorted into the forest and the expressions left in
\* the caller's order
MakeFromStatsUnpermuted(filesystem, stats, partitions, source_partition, format) ==
    MakeFromForest(filesystem, PathForestMake(stats, partitions).forest, partitions,
                   source_partition, format)

\* FileSystemDataSource::Make(filesystem, stats, partitions, source_partition, format)
MakeFromStatsAndPartitions(filesystem, stats, partitions, source_partition, format) ==
    LET made_forest == PathForestMake(stats, partitions)
    IN  MakeFromForest(filesystem, made_forest.forest, made_forest.partitions,
                       source_partition, format)

\* FileSystemDataSource::Make(filesystem, stats, source_partition, format)
MakeFromStats(filesystem, stats, source_partition, format) ==
    MakeFromStatsAndPartitions(filesystem, stats,
                               [k \in 1..Len(stats) |-> TrueExpression],
                               source_partition, format)

\* a Make call: the entry point and its arguments
MadeBy(entry, stats, forest, partitions) ==
    [entry |-> entry, stats |-> stats, forest |-> forest, partitions |-> partitions]

NotMade == MadeBy("none", <<>>, <<>>, <<>>)

---------------------------------------------------------------------------
(* FileSystemDataSource::GetFragmentsImpl *)

\* whether the first sequence is a proper prefix of the second
IsProperPrefix(p, q) == Len(p) < Len(q) /\ SubstrTo(q, Len(p)) = p

\* whether the node at position j of the forest is an ancestor of the node at
\* position k: its path followed by the separator starts the other's path
IsAncestor(forest, j, k) == IsProperPrefix(forest[j].path \o <<kSep>>, forest[k].path)

\* the positions of the ancestors of node k, outermost first
Ancestors(forest, k) ==
    SelectSeq([j \in 1..Len(forest) |-> j], LAMBDA j : IsAncestor(forest, j, k))

\* the node's own expression alone
OwnPredicate(ds, k) == ds.partitions_[k]

\* the expressions that accumulate on node k: the source-level expression,
\* the expressions of the node's ancestors and the node's own expression
AccumulatedOperands(ds, k) ==
    LET ancestors == Ancestors(ds.forest_, k)
    IN  <<ds.partition_expression_>>
            \o [j \in 1..Len(ancestors) |-> ds.partitions_[ancestors[j]]]
            \o <<ds.partitions_[k]>>

\* the accumulated predicate of node k: their conjunction
AccumulatedPredicate(ds, k) == and_(AccumulatedOperands(ds, k))

\* whether the two expressions are equalities of the same field with
\* different values
Contradict(lhs, rhs) ==
    /\ lhs.kind = "equal"
    /\ rhs.kind = "equal"
    /\ lhs.name = rhs.name
    /\ lhs.value # rhs.value

\* pruning of whatever the scan predicate does not itself imply
UnsatisfiableUnlessImplied(filter, predicates) ==
    \E c \in Range(Conjuncts(filter)) :
        ~EqualsTrue(c) /\ \A p \in Range(predicates) : c \notin Range(Conjuncts(p))

\* predicate pruning: the scan predicate and the conjunction of the
\* predicates are known not to hold together when an equality of the one
\* contradicts an equality of the other
ProvablyUnsatisfiable(filter, predicates) ==
    \E c \in Range(Conjuncts(filter)), p \in Range(predicates) :
        \E d \in Range(Conjuncts(p)) : Contradict(c, d)

\* ScanOptions: the scan predicate
ScanOptions(filter) == [filter |-> filter]

\* format->MakeFragment(source, options): the FileDataFragment of a file,
\* with the predicate it carries
FileDataFragment(source, format, scan_options, partition) ==
    [source_ |-> source, format_ |-> format, scan_options |-> scan_options,
     partition_expression |-> partition]

\* every node that is not pruned is yielded, a directory as well
YieldsEveryNode(ds, options, k) ==
    ~ProvablyUnsatisfiable(options.filter, AccumulatedOperands(ds, k))

\* whether the pull that evaluates node k yields a fragment: the node is a
\* file and is not pruned
Yields(ds, options, k) ==
    /\ ds.forest_[k].type = "File"
    /\ ~ProvablyUnsatisfiable(options.filter, AccumulatedOperands(ds, k))

\* the fragment of the file at node k
FragmentOf(ds, options, k) ==
    FileDataFragment(FileSourceFromPath(ds.forest_[k].path, ds.filesystem_, "UNCOMPRESSED"),
                     ds.format_, options, AccumulatedPredicate(ds, k))

\* DataFragmentIterator: the options of the call, the position in the forest,
\* the fragments yielded and the number of pulls
MakeScan(active, options, cursor, fragments, pulls) ==
    [active |-> active, options |-> options, cursor |-> cursor,
     fragments |-> fragments, pulls |-> pulls]

NoScan == MakeScan(FALSE, ScanOptions(NullExpression), 0, <<>>, 0)

\* an iterator that goes on from where the one before it stopped
ResumeFragments(ds, options) ==
    MakeScan(TRUE, options, IF scan.active THEN scan.cursor ELSE 1, <<>>, 0)

\* GetFragmentsImpl(options): the iterator stands before the first node
GetFragmentsImpl(ds, options) == MakeScan(TRUE, options, 1, <<>>, 0)

\* whether the iterator has evaluated every node
Exhausted(ds, s) == s.active /\ s.cursor > Len(ds.forest_)

\* one pull: the node at the cursor is evaluated and either filtered or
\* yielded
PullOne(ds, s) ==
    MakeScan(TRUE, s.options, s.cursor + 1,
             IF Yields(ds, s.options, s.cursor)
             THEN Append(s.fragments, FragmentOf(ds, s.options, s.cursor))
             ELSE s.fragments,
             s.pulls + 1)

---------------------------------------------------------------------------
(* DataFrameBlockCreator (arrow/python/arrow_to_pandas.cc) *)

\* a column of the table: the id of its Arrow type, its null count, the
\* timezone of a timestamp type, and whether its name is in extension_columns_
Column(id, null_count, timezone, extension) ==
    [id |-> id, null_count |-> null_count, timezone |-> timezone,
     extension |-> extension]

\* PandasOptions
PandasOptions(integer_object_nulls) == [integer_object_nulls |-> integer_object_nulls]

BlockTypeOk(type) == [status |-> "OK", type |-> type]

\* GetPandasBlockType(data, options, &output_type)
GetPandasBlockType(data, options) ==
    CASE data.id = "INT64" ->
             BlockTypeOk(IF data.null_count > 0
                         THEN IF options.integer_object_nulls THEN "OBJECT" ELSE "DOUBLE"
                         ELSE "INT64")
      [] data.id = "DOUBLE" -> BlockTypeOk("DOUBLE")
      [] data.id = "TIMESTAMP" ->
             BlockTypeOk(IF data.timezone # "" THEN "DATETIME_WITH_TZ" ELSE "DATETIME")
      [] data.id = "DICTIONARY" -> BlockTypeOk("CATEGORICAL")
      [] OTHER -> [status |-> "NotImplemented", type |-> "OBJECT"]

\* the output type of a column in CreateBlocks
OutputType(col, options) ==
    IF col.extension THEN BlockTypeOk("EXTENSION") ELSE GetPandasBlockType(col, options)

\* the block types that get a block of their own for each column
OwnBlockTypes == {"CATEGORICAL", "DATETIME_WITH_TZ", "EXTENSION"}

\* PandasBlock(options, num_rows, num_columns): placement_data_ has one entry
\* for each column of the block once it is allocated; `writers` are the
\* columns that wrote each slot, `overrun` whether a write went past the block
PandasBlock(type, num_columns, allocated) ==
    [type |-> type, num_columns_ |-> num_columns, allocated |-> allocated,
     placement_data_ |-> [k \in 1..num_columns |-> -1],
     writers |-> [k \in 1..num_columns |-> {}],
     overrun |-> FALSE]

\* an std::unordered_map: no entry, and one more entry
EmptyUnorderedMap == <<>>

MapInsert(map, key, value) == (key :> value) @@ map

\* every column of a type is placed at 0, the count still incremented
CountTypeAtZero(type_counts, output_type) ==
    IF output_type \in DOMAIN type_counts
    THEN [block_placement |-> 0,
          type_counts |-> [type_counts EXCEPT ![output_type] = @ + 1]]
    ELSE [block_placement |-> 0, type_counts |-> MapInsert(type_counts, output_type, 1)]

\* the last branch of the loop of CreateBlocks: the placement of a column of a
\* consolidated type is the number of columns of the type before it
CountType(type_counts, output_type) ==
    IF output_type \in DOMAIN type_counts
    THEN [block_placement |-> type_counts[output_type],
          type_counts |-> [type_counts EXCEPT ![output_type] = @ + 1]]
    ELSE [block_placement |-> 0, type_counts |-> MapInsert(type_counts, output_type, 1)]

\* DataFrameBlockCreator(options, extension_columns, table)
DataFrameBlockCreator(options, table) ==
    [table_ |-> table, options_ |-> options,
     column_types_ |-> <<>>, column_block_placement_ |-> <<>>,
     type_counts_ |-> EmptyUnorderedMap, blocks_ |-> EmptyUnorderedMap,
     categorical_blocks_ |-> EmptyUnorderedMap,
     datetimetz_blocks_ |-> EmptyUnorderedMap,
     extension_blocks_ |-> EmptyUnorderedMap]

NoCreator == DataFrameBlockCreator(PandasOptions(FALSE), <<>>)

\* the body of the first loop of CreateBlocks for a column (counted from 0),
\* the output type of the column being known
CreateBlock(c, column, output_type) ==
    LET counted == CountType(c.type_counts_, output_type)
        special == output_type \in OwnBlockTypes
        placed == [c EXCEPT
                      !.column_types_[column + 1] = output_type,
                      !.column_block_placement_[column + 1] =
                          IF special THEN 0 ELSE counted.block_placement]
    IN  CASE output_type = "CATEGORICAL" ->
                 [placed EXCEPT !.categorical_blocks_ =
                     MapInsert(@, column, PandasBlock("CATEGORICAL", 1, FALSE))]
          [] output_type = "DATETIME_WITH_TZ" ->
                 [placed EXCEPT !.datetimetz_blocks_ =
                     MapInsert(@, column, PandasBlock("DATETIME_WITH_TZ", 1, TRUE))]
          [] output_type = "EXTENSION" ->
                 [placed EXCEPT !.extension_blocks_ =
                     MapInsert(@, column, PandasBlock("EXTENSION", 1, TRUE))]
          [] OTHER -> [placed EXCEPT !.type_counts_ = counted.type_counts]

\* the second loop of CreateBlocks: MakeBlock for every counted type, with as
\* many columns as were counted
MakeBlocks(c) ==
    [c EXCEPT !.blocks_ =
        [type \in DOMAIN c.type_counts_ |->
            PandasBlock(type, c.type_counts_[type], TRUE)]]

\* GetBlock: the key of the column's block in the map of its type
BlockKeyOf(c, column) ==
    IF c.column_types_[column + 1] \in OwnBlockTypes THEN column ELSE c.column_types_[column + 1]

\* PandasBlock::Write(data, abs_placement, rel_placement), as the writes of
\* IntBlock::Write: the slot of rel_placement is filled and
\* placement_data_[rel_placement] = abs_placement
BlockWrite(block, abs_placement, rel_placement) ==
    IF rel_placement < 0 \/ rel_placement >= block.num_columns_
    THEN [block EXCEPT !.overrun = TRUE]
    ELSE [block EXCEPT !.allocated = TRUE,
                       !.placement_data_[rel_placement + 1] = abs_placement,
                       !.writers[rel_placement + 1] = @ \cup {abs_placement}]

\* WriteColumn of WriteTableToBlocks
WriteColumn(c, column) ==
    LET key == BlockKeyOf(c, column)
        rel == c.column_block_placement_[column + 1]
    IN  CASE c.column_types_[column + 1] = "CATEGORICAL" ->
                 [c EXCEPT !.categorical_blocks_[key] = BlockWrite(@, column, rel)]
          [] c.column_types_[column + 1] = "DATETIME_WITH_TZ" ->
                 [c EXCEPT !.datetimetz_blocks_[key] = BlockWrite(@, column, rel)]
          [] c.column_types_[column + 1] = "EXTENSION" ->
                 [c EXCEPT !.extension_blocks_[key] = BlockWrite(@, column, rel)]
          [] OTHER -> [c EXCEPT !.blocks_[key] = BlockWrite(@, column, rel)]

\* a Convert call: where it is, the column of the loop of CreateBlocks, the
\* columns whose WriteColumn has run, and the status returned
MakeConvert(at, column, written, status) ==
    [pc |-> at, i |-> column, written |-> written, status |-> status]

NoConvert == MakeConvert("none", 0, {}, "none")

---------------------------------------------------------------------------
(* PartitionSchemeOrDiscovery *)

HoldingScheme(s) == [index |-> "scheme", scheme |-> s, discovery |-> NullDiscovery]

\* a discovery stored under the index of the scheme
HoldingDiscoveryAsScheme(d) == [index |-> "scheme", scheme |-> NullScheme, discovery |-> d]

HoldingDiscovery(d) == [index |-> "discovery", scheme |-> NullScheme, discovery |-> d]

\* PartitionSchemeOrDiscovery::scheme()
scheme == IF variant_.index = "scheme" THEN variant_.scheme ELSE NullScheme

\* PartitionSchemeOrDiscovery::discovery()
discovery == IF variant_.index = "discovery" THEN variant_.discovery ELSE NullDiscovery

\* the pointer handed to the last constructor or operator= call, the
\* alternative held before that call and the number of such calls
MakeStored(kind, s, d, before, stores) ==
    [kind |-> kind, scheme |-> s, discovery |-> d, before |-> before, stores |-> stores]

\* the constructor and operator= calls are not recorded
NothingStored == MakeStored("none", NullScheme, NullDiscovery, "none", 0)

---------------------------------------------------------------------------
(* Inputs *)

\* the path of HivePartitionScheme's doc comment
HiveDocPath == <<"/", "d", "a", "y", "=", "3", "2", "1", "/", "i", "g", "n", "o", "r", "e", "d", "=", "3", ".", "4", "/", "y", "e", "a", "r", "=", "2", "0", "0", "9">>

\* the path of SchemaPartitionScheme's doc comment
SchemaDocPath == <<"/", "2", "0", "0", "9", "/", "1", "1">>

\* the same with the month segment missing
SchemaShortPath == <<"/", "2", "0", "0", "9">>

\* two keys of the schema
HiveTwoKeysPath == <<"a", "=", "1", "/", "b", "=", "a">>

\* the same keys in the other order
HiveTwoKeysSwappedPath == <<"b", "=", "a", "/", "a", "=", "1">>

\* a key that is no field, between two that are
HiveUnknownKeyPath == <<"a", "=", "1", "/", "c", "=", "1", "/", "b", "=", "1">>

\* a value one past int8, before a segment that parses
HiveOverflowPath == <<"a", "=", "1", "2", "8", "/", "b", "=", "1">>

\* the largest int8
HiveMaxPath == <<"a", "=", "1", "2", "7">>

\* the smallest int8
HiveMinPath == <<"/", "a", "=", "-", "1", "2", "8", "/">>

\* a segment without `=`, then a value that starts with `=`
HiveBarePath == <<"a", "=", "1", "/", "a", "/", "b", "=", "=">>

ExamplePaths ==
    {HiveDocPath, SchemaDocPath, SchemaShortPath, HiveTwoKeysPath,
     HiveTwoKeysSwappedPath, HiveUnknownKeyPath, HiveOverflowPath, HiveMaxPath,
     HiveMinPath, HiveBarePath}

\* every string over PathAlphabet of at most MaxPathLen characters
ShortPaths == UNION {[1..n -> PathAlphabet] : n \in 0..MaxPathLen}

Paths == ShortPaths \cup ExamplePaths

NameA == <<"a">>

NameB == <<"b">>

NameC == <<"c">>

NameYear == <<"y", "e", "a", "r">>

NameMonth == <<"m", "o", "n", "t", "h">>

NameDay == <<"d", "a", "y">>

SchemaAB == <<Field(NameA, "int8"), Field(NameB, "utf8")>>

\* schema<year:int16, month:int8> of SchemaPartitionScheme's doc comment
SchemaYearMonth == <<Field(NameYear, "int16"), Field(NameMonth, "int8")>>

\* schema<year:int16, month:int8, day:int8> of HivePartitionScheme's doc comment
SchemaYearMonthDay ==
    <<Field(NameYear, "int16"), Field(NameMonth, "int8"), Field(NameDay, "int8")>>

\* one dictionary per leading position; the second maps a segment to scalar(true)
Dictionaries ==
    << (<<"a">> :> EqualExpression(NameA, MakeScalar("int8", 1, <<>>)))
         @@ (<<"1">> :> EqualExpression(NameA, MakeScalar("int8", 2, <<>>))),
       (<<"a">> :> EqualExpression(NameB, MakeScalar("utf8", 0, <<"a">>)))
         @@ (<<"1">> :> TrueExpression) >>

Schemes ==
    {DefaultPartitionScheme,
     SegmentDictionaryPartitionScheme(SchemaAB, Dictionaries),
     SchemaPartitionScheme(SchemaAB),
     HivePartitionScheme(SchemaAB),
     SchemaPartitionScheme(SchemaYearMonth),
     HivePartitionScheme(SchemaYearMonthDay),
     FunctionPartitionScheme(SchemaAB)}

\* the sequences over S of at most n elements
SeqsUpTo(S, n) == UNION {[1..k -> S] : k \in 0..n}

DiscoveryNames == {NameA, NameB}

Discoveries ==
    {SchemaPartitionSchemeDiscovery(names) : names \in SeqsUpTo(DiscoveryNames, MaxFieldNames)}
        \cup {HivePartitionSchemeDiscovery}

FinishFields == {Field(name, type) : name \in {NameA, NameB, NameC}, type \in {"int32", "utf8"}}

\* the schemas handed to Finish: at most MaxSchemaFields fields of distinct names
FinishSchemas ==
    {schema \in SeqsUpTo(FinishFields, MaxSchemaFields) :
        \A j, k \in 1..Len(schema) : j # k => schema[j].name # schema[k].name}

\* the segments the inspected paths are made of
InspectSegments ==
    {<<"a", "=", "1">>, <<"b", "=", "a">>, <<"b", "=", "1">>, <<"1">>}

\* a key with an empty value
HiveEmptyValuePath == <<"a", "=">>

\* the paths handed to Inspect: no, one or two of the segments, and three of
\* the example paths
InspectPaths ==
    {<<>>} \cup InspectSegments
        \cup {s \o <<kSep>> \o t : s, t \in InspectSegments}
        \cup {HiveEmptyValuePath, HiveUnknownKeyPath, SchemaDocPath}

\* the std::vector<util::string_view> handed to Inspect
InspectPathLists == SeqsUpTo(InspectPaths, MaxInspectPaths)

---------------------------------------------------------------------------
(* PartitionScheme::Parse(path) and PartitionSchemeDiscovery::Finish(schema) *)

\* `++i`: the position passed is already the incremented one
PreIncrement(n) == [passed |-> n + 1, after |-> n + 1]

\* `i++`: the position passed to Parse(segment, i++), and i after the call
PostIncrement(n) == [passed |-> n, after |-> n + 1]

\* the loop body after the call, with the `continue` left out
CollectAll(exprs, expr) == Append(exprs, expr)

\* the loop body after the call: scalar(true) is skipped, the rest pushed back
Collect(exprs, expr) == IF EqualsTrue(expr) THEN exprs ELSE Append(exprs, expr)

\* one record per Parse(segment, i) call: its arguments, the key that
\* PartitionKeysScheme::Parse extracted (nullopt for the other schemes), its result
MakeCall(segment, pos) ==
    [segment |-> segment, pos |-> pos, key |-> ParseKey(scheme, segment, pos),
     result |-> ParseSegment(scheme, segment, pos)]

\* no Parse(path), Finish(schema) or Inspect(paths) is running or has returned
NoCall ==
    /\ pc = "idle"
    /\ path = <<>>
    /\ segments = <<>>
    /\ it = 1
    /\ i = 0
    /\ expressions = <<>>
    /\ calls = <<>>
    /\ result = NoResult
    /\ finish_schema = <<>>
    /\ finished = NoFinish
    /\ inspect_paths = <<>>
    /\ inspected = NoInspect

\* no concurrent callers
NoCallers == <<>>

fileVars == <<sources, built, compared, accessed>>

dataVars == <<datasource, made, scan, previous>>

scanVars == <<scan, previous>>

blockVars == <<creator, convert>>

\* no DataFrameBlockCreator was constructed
NoBlocks ==
    /\ creator = NoCreator
    /\ convert = NoConvert

\* no FileSystemDataSource was made
NoDataSource ==
    /\ datasource = NullDataSource
    /\ made = NotMade
    /\ scan = NoScan
    /\ previous = NoScan

\* no FileSource was constructed
NoFiles ==
    /\ sources = <<>>
    /\ built = <<>>
    /\ compared = NotCompared
    /\ accessed = NotAccessed

Init ==
    /\ variant_ \in {HoldingScheme(s) : s \in Schemes}
                       \cup {HoldingDiscovery(d) : d \in Discoveries}
    /\ last_stored = NothingStored
    /\ NoBlocks
    /\ NoCall
    /\ callers = NoCallers
    /\ NoFiles
    /\ NoDataSource

\* Parse(path) is entered: the path is split, i = 0, expressions is empty
ParseCall ==
    /\ pc = "idle"
    /\ scheme # NullScheme
    /\ \E p \in Paths :
        /\ path' = p
        /\ segments' = SplitAbstractPath(p)
    /\ it' = 1
    /\ i' = 0
    /\ expressions' = <<>>
    /\ calls' = <<>>
    /\ result' = NoResult
    /\ pc' = "loop"
    /\ UNCHANGED <<variant_, finish_schema, finished, inspect_paths, inspected>>
    /\ UNCHANGED otherVars

\* one iteration of the for loop: Parse(segment, i++), the raise on an error,
\* the skip of scalar(true), the push_back
ParseIterate ==
    /\ pc = "loop"
    /\ it <= Len(segments)
    /\ LET position == PostIncrement(i)
           call == MakeCall(segments[it], position.passed)
       IN  /\ i' = position.after
           /\ calls' = Append(calls, call)
           /\ IF call.result.status # "OK"
              THEN /\ result' = call.result
                   /\ pc' = "done"
                   /\ UNCHANGED <<it, expressions>>
              ELSE /\ expressions' = Collect(expressions, call.result.expr)
                   /\ it' = it + 1
                   /\ UNCHANGED <<result, pc>>
    /\ UNCHANGED <<variant_, path, segments, finish_schema, finished,
                   inspect_paths, inspected>>
    /\ UNCHANGED otherVars

\* the loop has ended: return and_(std::move(expressions))
ParseReturn ==
    /\ pc = "loop"
    /\ it > Len(segments)
    /\ result' = Ok(and_(expressions))
    /\ pc' = "done"
    /\ UNCHANGED <<variant_, path, segments, it, i, expressions, calls,
                   finish_schema, finished, inspect_paths, inspected>>
    /\ UNCHANGED otherVars

\* Finish(schema) on the discovery held
Finish ==
    /\ pc = "idle"
    /\ discovery # NullDiscovery
    /\ \E schema \in FinishSchemas :
        /\ finish_schema' = schema
        /\ finished' = DiscoveryFinish(discovery, schema)
    /\ pc' = "finished"
    /\ UNCHANGED <<variant_, path, segments, it, i, expressions, calls, result,
                   inspect_paths, inspected>>
    /\ UNCHANGED otherVars

\* Inspect(paths) on the discovery held
Inspect ==
    /\ pc = "idle"
    /\ discovery # NullDiscovery
    /\ \E paths \in InspectPathLists :
        /\ inspect_paths' = paths
        /\ inspected' = DiscoveryInspect(discovery, paths)
    /\ pc' = "inspected"
    /\ UNCHANGED <<variant_, path, segments, it, i, expressions, calls, result,
                   finish_schema, finished>>
    /\ UNCHANGED otherVars

\* the caller is done with what Parse(path), Finish(schema) or Inspect(paths)
\* returned: the locals of the call are gone, the scheme or discovery held is
\* as it was
Return ==
    /\ pc \in {"done", "finished", "inspected"}
    /\ pc' = "idle"
    /\ path' = <<>>
    /\ segments' = <<>>
    /\ it' = 1
    /\ i' = 0
    /\ expressions' = <<>>
    /\ calls' = <<>>
    /\ result' = NoResult
    /\ finish_schema' = <<>>
    /\ finished' = NoFinish
    /\ inspect_paths' = <<>>
    /\ inspected' = NoInspect
    /\ UNCHANGED variant_
    /\ UNCHANGED otherVars

Next == ParseCall \/ ParseIterate \/ ParseReturn \/ Finish \/ Inspect \/ Return

Spec == Init /\ [][Next]_vars

---------------------------------------------------------------------------
(* Concurrent callers of PartitionScheme::Parse(path) on one scheme *)

Callers == 1..NumCallers

\* the paths the concurrent callers parse
ConcurrentPaths ==
    {<<>>, <<"a", "/", "1">>, <<"1", "/", "a">>, HiveTwoKeysPath,
     HiveTwoKeysSwappedPath, HiveOverflowPath, HiveBarePath, SchemaDocPath}

\* the locals of one caller's Parse(path): every caller has its own
MakeCaller(c_pc, c_path, c_segments, c_it, c_i, c_expressions, c_result) ==
    [pc |-> c_pc, path |-> c_path, segments |-> c_segments, it |-> c_it,
     i |-> c_i, expressions |-> c_expressions, result |-> c_result]

IdleCaller == MakeCaller("idle", <<>>, <<>>, 1, 0, <<>>, NoResult)

\* the counter read by Parse(segment, i++) kept in one place for all callers
\* instead of in each caller's frame
SharedPosition(cs, c) == cs[1].i

\* the local `int i` of caller c's Parse(path)
CallerPosition(cs, c) == cs[c].i

ConcurrentInit ==
    /\ variant_ \in {HoldingScheme(s) : s \in Schemes}
    /\ last_stored = NothingStored
    /\ NoBlocks
    /\ NoCall
    /\ callers = [c \in Callers |-> IdleCaller]
    /\ NoFiles
    /\ NoDataSource

\* caller c enters Parse(path)
CallerParseCall(c) ==
    /\ callers[c].pc = "idle"
    /\ \E p \in ConcurrentPaths :
        callers' = [callers EXCEPT ![c] =
            MakeCaller("loop", p, SplitAbstractPath(p), 1, 0, <<>>, NoResult)]
    /\ UNCHANGED <<variant_, last_stored, blockVars, callVars, fileVars, dataVars>>

\* one iteration of the for loop of caller c
CallerParseIterate(c) ==
    /\ callers[c].pc = "loop"
    /\ callers[c].it <= Len(callers[c].segments)
    /\ LET self == callers[c]
           position == PostIncrement(CallerPosition(callers, c))
           parsed == ParseSegment(scheme, self.segments[self.it], position.passed)
       IN  callers' = [callers EXCEPT ![c] =
               IF parsed.status # "OK"
               THEN MakeCaller("done", self.path, self.segments, self.it,
                               position.after, self.expressions, parsed)
               ELSE MakeCaller("loop", self.path, self.segments, self.it + 1,
                               position.after,
                               Collect(self.expressions, parsed.expr), NoResult)]
    /\ UNCHANGED <<variant_, last_stored, blockVars, callVars, fileVars, dataVars>>

\* the loop of caller c has ended
CallerParseReturn(c) ==
    /\ callers[c].pc = "loop"
    /\ callers[c].it > Len(callers[c].segments)
    /\ callers' = [callers EXCEPT ![c].result = Ok(and_(callers[c].expressions)),
                                  ![c].pc = "done"]
    /\ UNCHANGED <<variant_, last_stored, blockVars, callVars, fileVars, dataVars>>

\* caller c is done with the result
CallerReturn(c) ==
    /\ callers[c].pc = "done"
    /\ callers' = [callers EXCEPT ![c] = IdleCaller]
    /\ UNCHANGED <<variant_, last_stored, blockVars, callVars, fileVars, dataVars>>

ConcurrentNext ==
    \E c \in Callers :
        \/ CallerParseCall(c)
        \/ CallerParseIterate(c)
        \/ CallerParseReturn(c)
        \/ CallerReturn(c)

ConcurrentSpec == ConcurrentInit /\ [][ConcurrentNext]_vars

---------------------------------------------------------------------------
(* Construction and use of FileSource objects *)

\* the path strings of the sources; one is the text of buffer_path
SourcePaths == {<<"a">>, <<"b">>, BufferPath}

\* fs::FileSystem*: null or one of two file systems
FileSystems == {NULLPTR, 1, 2}

\* the buffers: two of the same bytes, one of other bytes, an empty one
Buffers ==
    {MakeBuffer(1, <<"a">>), MakeBuffer(2, <<"a">>), MakeBuffer(3, <<"b">>),
     MakeBuffer(4, <<>>)}

\* Compression::type
Compressions == {"UNCOMPRESSED", "GZIP"}

FileSourceInit ==
    /\ variant_ = HoldingScheme(DefaultPartitionScheme)
    /\ last_stored = NothingStored
    /\ NoBlocks
    /\ NoCall
    /\ callers = NoCallers
    /\ NoFiles
    /\ NoDataSource

\* a FileSource is constructed from a path and a file system
ConstructFromPath ==
    /\ Len(sources) < 2
    /\ \E p \in SourcePaths, filesystem \in FileSystems, compression \in Compressions :
        /\ sources' = Append(sources, FileSourceFromPath(p, filesystem, compression))
        /\ built' = Append(built, BuiltFromPath(p, filesystem, compression))
    /\ UNCHANGED <<variant_, last_stored, blockVars, callVars, callers, compared, accessed, dataVars>>

\* a FileSource is constructed from a buffer
ConstructFromBuffer ==
    /\ Len(sources) < 2
    /\ \E buffer \in Buffers, compression \in Compressions :
        /\ sources' = Append(sources, FileSourceFromBuffer(buffer, compression))
        /\ built' = Append(built, BuiltFromBuffer(buffer, compression))
    /\ UNCHANGED <<variant_, last_stored, blockVars, callVars, callers, compared, accessed, dataVars>>

\* lhs == rhs, rhs == lhs and lhs == lhs are evaluated for two sources
Compare ==
    /\ \E lhs, rhs \in 1..Len(sources) :
        compared' = [lhs |-> lhs, rhs |-> rhs,
                     equal |-> FileSourceEquals(sources[lhs], sources[rhs]),
                     reverse |-> FileSourceEquals(sources[rhs], sources[lhs]),
                     self |-> FileSourceEquals(sources[lhs], sources[lhs])]
    /\ UNCHANGED <<variant_, last_stored, blockVars, callVars, callers, sources, built, accessed, dataVars>>

\* the accessors of one source are read
Access ==
    /\ \E k \in 1..Len(sources) :
        accessed' = [source |-> k,
                     type |-> FileSourceType(sources[k]),
                     path |-> FileSourcePath(sources[k]),
                     filesystem |-> FileSourceFilesystem(sources[k]),
                     buffer |-> FileSourceBuffer(sources[k]),
                     compression |-> FileSourceCompression(sources[k])]
    /\ UNCHANGED <<variant_, last_stored, blockVars, callVars, callers, sources, built, compared, dataVars>>

FileSourceNext == ConstructFromPath \/ ConstructFromBuffer \/ Compare \/ Access

FileSourceSpec == FileSourceInit /\ [][FileSourceNext]_vars

---------------------------------------------------------------------------
(* Construction of a FileSystemDataSource *)

\* the files and directories of the file system
StatsPool ==
    {FileStats(<<"a">>, "Directory"), FileStats(<<"a", "/", "1">>, "File"),
     FileStats(<<"a", "/", "b">>, "File"), FileStats(<<"b">>, "File")}

\* fs::FileStatsVector: at most MaxStats files and directories, none twice,
\* in any order
StatsLists ==
    {stats \in SeqsUpTo(StatsPool, MaxStats) :
        \A j, k \in 1..Len(stats) : j # k => stats[j] # stats[k]}

\* fs::PathForest, built upstream from some of the files and directories
Forests == {PathForestMake(stats, <<>>).forest : stats \in StatsLists}

\* ExpressionVector: at most MaxPartitions partition expressions
PartitionLists ==
    SeqsUpTo({TrueExpression, EqualExpression(NameA, MakeScalar("int32", 1, <<>>))},
             MaxPartitions)

\* the source_partition argument
SourcePartition == EqualExpression(NameB, MakeScalar("int32", 2, <<>>))

DataSourceInit ==
    /\ variant_ = HoldingScheme(DefaultPartitionScheme)
    /\ last_stored = NothingStored
    /\ NoBlocks
    /\ NoCall
    /\ callers = NoCallers
    /\ NoFiles
    /\ NoDataSource

\* Make(filesystem, stats, source_partition, format)
MakeStats ==
    /\ made = NotMade
    /\ \E stats \in StatsLists :
        /\ datasource' = MakeFromStats(1, stats, SourcePartition, "format")
        /\ made' = MadeBy("stats", stats, <<>>, <<>>)
    /\ UNCHANGED <<variant_, last_stored, blockVars, callVars, callers, fileVars, scanVars>>

\* Make(filesystem, stats, partitions, source_partition, format)
MakeStatsAndPartitions ==
    /\ made = NotMade
    /\ \E stats \in StatsLists, partitions \in PartitionLists :
        /\ datasource' = MakeFromStatsAndPartitions(1, stats, partitions,
                                                    SourcePartition, "format")
        /\ made' = MadeBy("stats and partitions", stats, <<>>, partitions)
    /\ UNCHANGED <<variant_, last_stored, blockVars, callVars, callers, fileVars, scanVars>>

\* Make(filesystem, forest, partitions, source_partition, format)
MakeForest ==
    /\ made = NotMade
    /\ \E forest \in Forests, partitions \in PartitionLists :
        /\ datasource' = MakeFromForest(1, forest, partitions, SourcePartition, "format")
        /\ made' = MadeBy("forest", <<>>, forest, partitions)
    /\ UNCHANGED <<variant_, last_stored, blockVars, callVars, callers, fileVars, scanVars>>

\* the data source is released
Release ==
    /\ made # NotMade
    /\ datasource' = NullDataSource
    /\ made' = NotMade
    /\ UNCHANGED <<variant_, last_stored, blockVars, callVars, callers, fileVars, scanVars>>

DataSourceNext == MakeStats \/ MakeStatsAndPartitions \/ MakeForest \/ Release

DataSourceSpec == DataSourceInit /\ [][DataSourceNext]_vars

---------------------------------------------------------------------------
(* Fragment retrieval from a FileSystemDataSource *)

\* the files and directories of the scanned file system, in path order
ScanNodes ==
    <<FileStats(<<"a">>, "Directory"), FileStats(<<"a", "/", "1">>, "File"),
      FileStats(<<"a", "/", "b">>, "Directory"),
      FileStats(<<"a", "/", "b", "/", "1">>, "File"), FileStats(<<"b">>, "File")>>

\* the forests of some of them
ScanForests ==
    {PathForestMake(SelectSeq(ScanNodes, LAMBDA n : n \in chosen), <<>>).forest :
        chosen \in SUBSET Range(ScanNodes)}

\* the partition expressions of the nodes
ScanPartitions ==
    {TrueExpression, EqualExpression(NameA, MakeScalar("int32", 1, <<>>)),
     EqualExpression(NameA, MakeScalar("int32", 2, <<>>))}

\* the scan predicates: none, one on a field of the nodes, one that
\* contradicts the source-level expression, and a conjunction
ScanFilters ==
    {TrueExpression, EqualExpression(NameA, MakeScalar("int32", 1, <<>>)),
     EqualExpression(NameB, MakeScalar("int32", 3, <<>>)),
     AndExpression(EqualExpression(NameA, MakeScalar("int32", 2, <<>>)),
                   EqualExpression(NameB, MakeScalar("int32", 2, <<>>)))}

\* a data source was made from a forest and one expression per node
ScanInit ==
    /\ variant_ = HoldingScheme(DefaultPartitionScheme)
    /\ last_stored = NothingStored
    /\ NoBlocks
    /\ NoCall
    /\ callers = NoCallers
    /\ NoFiles
    /\ \E forest \in ScanForests :
         \E partitions \in [1..Len(forest) -> ScanPartitions] :
            /\ datasource = MakeFromForest(1, forest, partitions, SourcePartition, "format")
            /\ made = MadeBy("forest", <<>>, forest, partitions)
    /\ scan = NoScan
    /\ previous = NoScan

\* GetFragmentsImpl(options) is called; the iterator of the call before it,
\* if any, was pulled until it was exhausted
GetFragments ==
    /\ ~scan.active \/ Exhausted(datasource, scan)
    /\ \E filter \in ScanFilters :
        scan' = GetFragmentsImpl(datasource, ScanOptions(filter))
    /\ previous' = scan
    /\ UNCHANGED <<variant_, last_stored, blockVars, callVars, callers, fileVars, datasource, made>>

\* the consumer pulls the next element of the iterator
Pull ==
    /\ scan.active
    /\ ~Exhausted(datasource, scan)
    /\ scan' = PullOne(datasource, scan)
    /\ UNCHANGED <<variant_, last_stored, blockVars, callVars, callers, fileVars, datasource, made, previous>>

ScanNext == GetFragments \/ Pull

ScanSpec == ScanInit /\ [][ScanNext]_vars

\* the consumer keeps pulling
PullingSpec == ScanSpec /\ WF_vars(Pull)

---------------------------------------------------------------------------
(* Construction of and assignment to a PartitionSchemeOrDiscovery *)

\* the number of constructor and operator= calls followed
MaxStores == 5

\* PartitionSchemeOrDiscovery(scheme) or PartitionSchemeOrDiscovery(discovery)
HolderInit ==
    /\ \/ \E s \in Schemes :
            /\ variant_ = HoldingScheme(s)
            /\ last_stored = MakeStored("scheme", s, NullDiscovery, "none", 1)
       \/ \E d \in Discoveries :
            /\ variant_ = HoldingDiscovery(d)
            /\ last_stored = MakeStored("discovery", NullScheme, d, "none", 1)
    /\ NoBlocks
    /\ NoCall
    /\ callers = NoCallers
    /\ NoFiles
    /\ NoDataSource

\* operator=(std::shared_ptr<PartitionScheme>)
AssignScheme ==
    /\ last_stored.stores < MaxStores
    /\ \E s \in Schemes :
        /\ variant_' = HoldingScheme(s)
        /\ last_stored' = MakeStored("scheme", s, NullDiscovery, variant_.index,
                                last_stored.stores + 1)
    /\ UNCHANGED <<blockVars, callVars, callers, fileVars, dataVars>>

\* operator=(std::shared_ptr<PartitionSchemeDiscovery>)
AssignDiscovery ==
    /\ last_stored.stores < MaxStores
    /\ \E d \in Discoveries :
        /\ variant_' = HoldingDiscovery(d)
        /\ last_stored' = MakeStored("discovery", NullScheme, d, variant_.index,
                                last_stored.stores + 1)
    /\ UNCHANGED <<blockVars, callVars, callers, fileVars, dataVars>>

HolderNext == AssignScheme \/ AssignDiscovery

HolderSpec == HolderInit /\ [][HolderNext]_vars

---------------------------------------------------------------------------
(* DataFrameBlockCreator::Convert *)

\* the number of columns of the table
MaxColumns == 3

\* the columns: int64 without and with nulls, double, dictionary, timestamp
\* without and with a timezone, an extension column, and a union
ColumnPool ==
    {Column("INT64", 0, "", FALSE), Column("INT64", 1, "", FALSE),
     Column("DOUBLE", 0, "", FALSE), Column("DICTIONARY", 0, "", FALSE),
     Column("TIMESTAMP", 0, "", FALSE), Column("TIMESTAMP", 0, "UTC", FALSE),
     Column("INT64", 0, "", TRUE), Column("UNION", 0, "", FALSE)}

Tables == SeqsUpTo(ColumnPool, MaxColumns)

\* table_->num_columns()
NumColumns == Len(creator.table_)

\* a DataFrameBlockCreator was constructed for a table
BlockInit ==
    /\ variant_ = HoldingScheme(DefaultPartitionScheme)
    /\ last_stored = NothingStored
    /\ NoCall
    /\ callers = NoCallers
    /\ NoFiles
    /\ NoDataSource
    /\ \E table \in Tables, integer_object_nulls \in BOOLEAN :
        creator = DataFrameBlockCreator(PandasOptions(integer_object_nulls), table)
    /\ convert = MakeConvert("constructed", 0, {}, "none")

\* Convert(output) is entered: the vectors are resized, type_counts_ and
\* blocks_ are cleared
ConvertCall ==
    /\ convert.pc = "constructed"
    /\ creator' = [creator EXCEPT
                      !.column_types_ = [k \in 1..NumColumns |-> "OBJECT"],
                      !.column_block_placement_ = [k \in 1..NumColumns |-> 0],
                      !.type_counts_ = EmptyUnorderedMap,
                      !.blocks_ = EmptyUnorderedMap]
    /\ convert' = MakeConvert("create", 0, {}, "none")
    /\ UNCHANGED <<variant_, last_stored, callVars, callers, fileVars, dataVars>>

\* one turn of the first loop of CreateBlocks
CreateBlocksStep ==
    /\ convert.pc = "create"
    /\ convert.i < NumColumns
    /\ LET output_type == OutputType(creator.table_[convert.i + 1], creator.options_)
       IN  IF output_type.status # "OK"
           THEN /\ convert' = MakeConvert("done", convert.i, {}, output_type.status)
                /\ UNCHANGED creator
           ELSE /\ creator' = CreateBlock(creator, convert.i, output_type.type)
                /\ convert' = MakeConvert("create", convert.i + 1, {}, "none")
    /\ UNCHANGED <<variant_, last_stored, callVars, callers, fileVars, dataVars>>

\* the second loop of CreateBlocks, and its return
CreateBlocksAllocate ==
    /\ convert.pc = "create"
    /\ convert.i = NumColumns
    /\ creator' = MakeBlocks(creator)
    /\ convert' = MakeConvert("write", convert.i, {}, "none")
    /\ UNCHANGED <<variant_, last_stored, callVars, callers, fileVars, dataVars>>

\* WriteTableToBlocks: WriteColumn runs for some column it has not yet run
\* for, in the order of the columns or, with use_threads, in any order
WriteTableColumn ==
    /\ convert.pc = "write"
    /\ \E column \in (0..(NumColumns - 1)) \ convert.written :
        /\ creator' = WriteColumn(creator, column)
        /\ convert' = MakeConvert("write", convert.i,
                                  convert.written \cup {column}, "none")
    /\ UNCHANGED <<variant_, last_stored, callVars, callers, fileVars, dataVars>>

\* WriteTableToBlocks is through and Convert returns
ConvertReturn ==
    /\ convert.pc = "write"
    /\ convert.written = 0..(NumColumns - 1)
    /\ convert' = MakeConvert("done", convert.i, convert.written, "OK")
    /\ UNCHANGED <<variant_, last_stored, callVars, callers, fileVars, dataVars,
                   creator>>

BlockNext ==
    \/ ConvertCall
    \/ CreateBlocksStep
    \/ CreateBlocksAllocate
    \/ WriteTableColumn
    \/ ConvertReturn

BlockSpec == BlockInit /\ [][BlockNext]_vars

---------------------------------------------------------------------------
(* Vocabulary of the properties *)

\* whether expr is the conjunction of exprs, in their order
IsConjunctionOf(expr, exprs) ==
    IF Len(exprs) = 0 THEN expr = TrueExpression ELSE Conjuncts(expr) = exprs

\* the result of the per-segment Parse of the k-th segment of the path
SegmentResult(k) == ParseSegment(scheme, segments[k], k - 1)

AllSegmentsParse == \A k \in 1..Len(segments) : SegmentResult(k).status = "OK"

\* the first segment whose per-segment Parse fails
FirstFailing ==
    CHOOSE k \in 1..Len(segments) :
        /\ SegmentResult(k).status # "OK"
        /\ \A j \in 1..(k - 1) : SegmentResult(j).status = "OK"

\* the per-segment expressions that are not scalar(true), in segment order
NonTrivialExpressions ==
    SelectSeq([k \in 1..Len(segments) |-> SegmentResult(k).expr],
              LAMBDA e : e # TrueExpression)

KeysScheme == scheme.kind \in {"schema", "hive"}

\* the declared type of the schema's field of that name
FieldTypeOf(schema, name) == (CHOOSE f \in Range(schema) : f.name = name).type

\* the key names a field of the scheme's schema and its value does not parse
\* as a scalar of the field's type
Unparseable(key) ==
    /\ key.present
    /\ key.name \in FieldNamesOf(scheme.schema)
    /\ ScalarParse(FieldTypeOf(scheme.schema, key.name), key.value).status # "OK"

\* the key is absent, or names no field of the scheme's schema
Unmatched(key) == ~key.present \/ key.name \notin FieldNamesOf(scheme.schema)

---------------------------------------------------------------------------
(* Properties of PartitionScheme::Parse(path) *)

\* C1, as stated: for every scheme and every path, Parse(path) returns the
\* conjunction of exactly the per-segment results that are not scalar(true),
\* in segment order.
C1_ParseIsConjunctionOfNonTrivial ==
    pc = "done" =>
        /\ result.status = "OK"
        /\ IsConjunctionOf(result.expr, NonTrivialExpressions)

\* C1, amended: when every per-segment Parse succeeds, Parse(path) returns the
\* conjunction of exactly the per-segment expressions that are not scalar(true),
\* in segment order (scalar(true) when there is none, the empty path included);
\* when a per-segment Parse fails, Parse(path) returns the first such error.
C1_ParseIsConjunctionUnlessError ==
    pc = "done" =>
        IF AllSegmentsParse
        THEN /\ result.status = "OK"
             /\ IsConjunctionOf(result.expr, NonTrivialExpressions)
             /\ TrueExpression \notin Range(Conjuncts(result.expr))
                    \/ result.expr = TrueExpression
             /\ (\A k \in 1..Len(segments) : SegmentResult(k).expr = TrueExpression)
                    => result.expr = TrueExpression
        ELSE result = SegmentResult(FirstFailing)

\* a path of three segments parsed to a conjunction of two, one segment elided
C1_Witness ==
    /\ pc = "done"
    /\ result.status = "OK"
    /\ Len(segments) = 3
    /\ Len(Conjuncts(result.expr)) = 2
    /\ \E k \in 1..3 : SegmentResult(k).expr = TrueExpression

\* C2, as stated: under the Hive and the positional schemes Parse(path) never
\* returns an error, and every segment of the path is parsed.
C2_KeysSchemesNeverFail ==
    (pc = "done" /\ KeysScheme) =>
        /\ result.status = "OK"
        /\ Len(calls) = Len(segments)

\* C2, amended: under the Hive and the positional schemes a segment that yields
\* no key, or whose key names no field of the schema, contributes scalar(true)
\* and the segments after it are still parsed; Parse(path) returns an error
\* exactly when some segment's key names a field of the schema and its value
\* does not parse as a scalar of that field's type.
C2_OnlyUnparseableValuesFail ==
    KeysScheme =>
        /\ \A k \in 1..Len(calls) :
               Unmatched(calls[k].key) =>
                   /\ calls[k].result = Ok(TrueExpression)
                   /\ k = Len(calls) => it = k + 1
                   /\ (pc = "done" /\ k < Len(segments)) => Len(calls) > k
        /\ pc = "done" =>
               (result.status # "OK"
                    <=> \E k \in 1..Len(segments) :
                            Unparseable(ParseKey(scheme, segments[k], k - 1)))

\* a path whose first segment matches nothing and whose second is parsed to an
\* equality
C2_Witness ==
    /\ pc = "done"
    /\ KeysScheme
    /\ result.status = "OK"
    /\ Len(calls) >= 2
    /\ Unmatched(calls[1].key)
    /\ calls[2].result.expr.kind = "equal"

\* C3: ConvertKey of a key that names a field of the schema and whose value
\* does not parse as that field's type returns an error and no expression;
\* Parse(path) returns that error, no expression, and parses no later segment.
C3_UnparseableValueFails ==
    \A k \in 1..Len(calls) :
        Unparseable(calls[k].key) =>
            /\ ConvertKey(calls[k].key, scheme.schema) = calls[k].result
            /\ calls[k].result.status = "TypeError"
            /\ calls[k].result.expr = NullExpression
            /\ k = Len(calls)
            /\ pc = "done"
            /\ result = calls[k].result
            /\ it = k

\* a path of two segments whose first holds an unparseable value: Parse has
\* returned the error after one call
C3_Witness ==
    /\ pc = "done"
    /\ Len(segments) = 2
    /\ Len(calls) = 1
    /\ Unparseable(calls[1].key)
    /\ result.status = "TypeError"

\* the values ConvertKey is probed with for a name that is no field
ProbeValues == SeqsUpTo(PathAlphabet, 2)

\* C4: ConvertKey of a key whose name is no field of the schema returns
\* scalar(true), whatever the value; of a key whose name is a field and whose
\* value parses, exactly the equality of the field and the parsed value.
C4_ConvertKey ==
    \A k \in 1..Len(calls) :
        LET key == calls[k].key
        IN  /\ (key.present /\ key.name \notin FieldNamesOf(scheme.schema)) =>
                   /\ calls[k].result = Ok(TrueExpression)
                   /\ \A value \in ProbeValues :
                          ConvertKey(MakeKey(key.name, value), scheme.schema)
                              = Ok(TrueExpression)
            /\ (key.present /\ key.name \in FieldNamesOf(scheme.schema)
                    /\ ~Unparseable(key)) =>
                   calls[k].result =
                       Ok(EqualExpression(
                              key.name,
                              ScalarParse(FieldTypeOf(scheme.schema, key.name),
                                          key.value).scalar))

\* one Parse(path) that converted a key that is no field and a key of an int8
\* field
C4_Witness ==
    /\ pc = "done"
    /\ \E k \in 1..Len(calls) :
           calls[k].key.present /\ calls[k].key.name \notin FieldNamesOf(scheme.schema)
    /\ \E k \in 1..Len(calls) :
           /\ calls[k].key.present
           /\ calls[k].result.expr.kind = "equal"
           /\ calls[k].result.expr.value.type = "int8"

\* C5, as stated (and as HivePartitionScheme's doc comment has it): the path
\* "/day=321/ignored=3.4/year=2009" under the Hive scheme of
\* schema<year:int16, month:int8, day:int8> parses, and the result constrains
\* year to 2009 and day to 321 and nothing else (read in either order).
C5_HiveDocExampleParses ==
    (pc = "done" /\ scheme = HivePartitionScheme(SchemaYearMonthDay) /\ path = HiveDocPath) =>
        /\ result.status = "OK"
        /\ Range(Conjuncts(result.expr)) =
               {EqualExpression(NameYear, MakeScalar("int16", 2009, <<>>)),
                EqualExpression(NameDay, MakeScalar("int8", 321, <<>>))}

\* the positions of `=` in a segment (1-based)
EqualsSigns(segment) == {p \in 1..Len(segment) : segment[p] = "="}

\* C6: under the Hive scheme a segment without `=` yields no key and no error:
\* it contributes scalar(true) and the loop goes on to the next segment.
C6_HiveSegmentWithoutEquals ==
    scheme.kind = "hive" =>
        \A k \in 1..Len(calls) :
            EqualsSigns(calls[k].segment) = {} =>
                /\ calls[k].key = NullOpt
                /\ calls[k].result = Ok(TrueExpression)
                /\ k = Len(calls) => it = k + 1
                /\ (pc = "done" /\ k < Len(segments)) =>
                       (Len(calls) > k /\ calls[k + 1].segment = segments[k + 1])

\* a Hive Parse(path) that met a segment without `=` and parsed the segment
\* after it to an equality
C6_Witness ==
    /\ pc = "done"
    /\ scheme.kind = "hive"
    /\ \E k \in 1..(Len(calls) - 1) :
           /\ EqualsSigns(calls[k].segment) = {}
           /\ calls[k + 1].result.expr.kind = "equal"

\* C7: Hive ParseKey splits a segment at its first `=` (later `=` stay in the
\* value), whatever the position argument; the fields and values a Hive
\* Parse(path) constrains are those of the set of its segments, whatever
\* their order.
C7_HiveSplitsAtFirstEquals ==
    scheme.kind = "hive" =>
        /\ \A k \in 1..Len(calls) :
               LET segment == calls[k].segment
                   signs == EqualsSigns(segment)
               IN  /\ signs # {} =>
                          LET first == CHOOSE p \in signs : \A q \in signs : p <= q
                          IN  calls[k].key =
                                  MakeKey(SubSeq(segment, 1, first - 1),
                                          SubSeq(segment, first + 1, Len(segment)))
                   /\ \A pos \in 0..MaxPathLen : HiveParseKey(segment, pos) = calls[k].key
        /\ (pc = "done" /\ result.status = "OK") =>
               Range(Conjuncts(result.expr)) \ {TrueExpression} =
                   {ConvertKey(HiveParseKeyStatic(s), scheme.schema).expr :
                        s \in Range(segments)} \ {TrueExpression}

\* a Hive Parse(path) with a value that holds a `=`, which constrained two
\* fields
C7_Witness ==
    /\ pc = "done"
    /\ scheme.kind = "hive"
    /\ result.status = "OK"
    /\ Len(Conjuncts(result.expr)) = 2
    /\ \E k \in 1..Len(calls) :
           calls[k].key.present /\ EqualsSigns(calls[k].key.value) # {}

\* the smaller of two numbers
Min(m, n) == IF m <= n THEN m ELSE n

C9_PositionIsSegmentIndex ==
    /\ \A k \in 1..Len(calls) :
           /\ calls[k].segment = segments[k]
           /\ calls[k].pos = k - 1
    /\ pc \in {"loop", "done"} => i = Len(calls)

\* a Parse(path) whose third segment was parsed after an elided one
C9_Witness ==
    /\ pc = "done"
    /\ Len(calls) = 3
    /\ \E k \in 1..2 : calls[k].result.expr = TrueExpression
    /\ calls[3].result.expr.kind = "equal"

---------------------------------------------------------------------------
(* Properties of SegmentDictionaryPartitionScheme::Parse(segment, i) *)

\* the expression dictionary number pos (0-based) stores for the segment, or
\* NullExpression when pos is no index of a dictionary or the segment no key
StoredExpression(dictionaries, segment, pos) ==
    IF /\ pos \in 0..(Len(dictionaries) - 1)
       /\ \E key \in DOMAIN dictionaries[pos + 1] : key = segment
    THEN dictionaries[pos + 1][segment]
    ELSE NullExpression

\* the positions the dictionary scheme is probed at, from below the first
\* dictionary to beyond the last
ProbePositions == -1..(Len(Dictionaries) + 1)

\* C17: SegmentDictionary Parse(segment, i) returns the expression stored for
\* the segment in dictionary i when i is a valid index and the segment is a key
\* of that dictionary, and the trivial true predicate in every other case; it
\* never fails.
C17_SegmentDictionaryParse ==
    scheme.kind = "segment_dictionary" =>
        /\ \A k \in 1..Len(calls) :
               LET stored == StoredExpression(scheme.dictionaries,
                                              calls[k].segment, calls[k].pos)
               IN  /\ calls[k].result.status = "OK"
                   /\ stored # NullExpression => calls[k].result.expr = stored
                   /\ stored = NullExpression =>
                          calls[k].result.expr = TrueExpression
        /\ \A pos \in ProbePositions : \A k \in 1..Len(segments) :
               LET stored == StoredExpression(scheme.dictionaries, segments[k], pos)
                   parsed == ParseSegment(scheme, segments[k], pos)
               IN  /\ parsed.status = "OK"
                   /\ parsed.expr =
                          IF stored # NullExpression THEN stored ELSE TrueExpression

\* a Parse(path) under the dictionary scheme of two dictionaries whose first
\* segment was no key, whose second was a key of the second dictionary and
\* whose third, a key of both, was beyond the last dictionary
C17_Witness ==
    /\ pc = "done"
    /\ scheme.kind = "segment_dictionary"
    /\ Len(calls) = 3
    /\ calls[1].segment \notin DOMAIN scheme.dictionaries[1]
    /\ calls[1].result = Ok(TrueExpression)
    /\ calls[2].segment \in DOMAIN scheme.dictionaries[2]
    /\ calls[2].result.expr.kind = "equal"
    /\ calls[3].segment \in DOMAIN scheme.dictionaries[1]
    /\ calls[3].result = Ok(TrueExpression)

---------------------------------------------------------------------------
(* Properties of PartitionSchemeDiscovery::Finish(schema) *)

\* C10: Finish(schema) of the schema-positional discovery fails with a
\* TypeError whenever a name of its field-name list is no field of the schema;
\* no scheme it returns lacks a required field.
C10_FinishRequiresEveryField ==
    (pc = "finished" /\ discovery.kind = "schema") =>
        /\ (\E name \in Range(discovery.field_names) :
                name \notin FieldNamesOf(finish_schema)) =>
               (finished.status = "TypeError" /\ finished.scheme = NullScheme)
        /\ finished.status = "OK" =>
               Range(discovery.field_names) \subseteq FieldNamesOf(finished.scheme.schema)

\* Finish(schema) failed on the second of two field names, the first being a
\* field of the schema
C10_Witness ==
    /\ pc = "finished"
    /\ discovery.kind = "schema"
    /\ Len(discovery.field_names) = 2
    /\ discovery.field_names[1] \in FieldNamesOf(finish_schema)
    /\ discovery.field_names[2] \notin FieldNamesOf(finish_schema)
    /\ finished.status = "TypeError"

\* C11: Finish(schema) of the schema-positional discovery succeeds on a schema
\* that has every required name, extra fields or not; the scheme returned is of
\* the Schema variant and its schema lists exactly the required fields, in the
\* order of the field-name list, each with its type in the supplied schema.
C11_FinishRestrictsAndReorders ==
    (/\ pc = "finished"
     /\ discovery.kind = "schema"
     /\ Range(discovery.field_names) \subseteq FieldNamesOf(finish_schema)) =>
        /\ finished.status = "OK"
        /\ finished.scheme.kind = "schema"
        /\ finished.scheme.schema =
               [k \in 1..Len(discovery.field_names) |->
                   Field(discovery.field_names[k],
                         FieldTypeOf(finish_schema, discovery.field_names[k]))]

\* Finish(schema) succeeded on a schema of three fields that lists the two
\* required names in the opposite order, around a field that is not required
C11_Witness ==
    /\ pc = "finished"
    /\ discovery.kind = "schema"
    /\ discovery.field_names = <<NameB, NameA>>
    /\ FieldNamesOf(finish_schema) = {NameA, NameB, NameC}
    /\ finish_schema[1].name = NameA
    /\ finish_schema[2].name = NameC
    /\ finish_schema[1].type # finish_schema[3].type
    /\ finished.status = "OK"

\* the names of the fields of a schema, in the order of the fields
FieldNameList(schema) == [k \in 1..Len(schema) |-> schema[k].name]

\* C15: Finish(schema) of the Hive discovery succeeds for every schema and
\* returns a scheme of the Hive variant whose schema is the supplied one,
\* unchanged: no field is required, dropped or moved.
C15_HiveFinishKeepsSchema ==
    (pc = "finished" /\ discovery.kind = "hive") =>
        /\ finished.status = "OK"
        /\ finished.scheme.kind = "hive"
        /\ finished.scheme.schema = finish_schema
        /\ finished.scheme.dictionaries = <<>>

\* the Hive discovery finished on a schema of three fields that are not in
\* the order of their names
C15_Witness ==
    /\ pc = "finished"
    /\ discovery.kind = "hive"
    /\ FieldNameList(finish_schema) = <<NameC, NameA, NameB>>
    /\ finished.status = "OK"

---------------------------------------------------------------------------
(* Properties of PartitionSchemeDiscovery::Inspect(paths) *)

\* the segments of the k-th inspected path
InspectedSegments(k) == SplitAbstractPath(inspect_paths[k])

\* the values the inspected paths hold for a name of the field-name list: the
\* j-th segment of a path is a value of the j-th name
PositionalValuesOf(name) ==
    {InspectedSegments(k)[j] : <<k, j>> \in
        {kj \in (1..Len(inspect_paths)) \X (1..Len(discovery.field_names)) :
            /\ kj[2] <= Len(InspectedSegments(kj[1]))
            /\ discovery.field_names[kj[2]] = name}}

\* the segments of all the inspected paths, in the order they are visited
RECURSIVE SegmentsFrom(_)
SegmentsFrom(k) ==
    IF k > Len(inspect_paths) THEN <<>>
    ELSE InspectedSegments(k) \o SegmentsFrom(k + 1)

\* the `key=value` segments among them, as keys
InspectedKeys ==
    LET keys == [k \in 1..Len(SegmentsFrom(1)) |-> HiveParseKeyStatic(SegmentsFrom(1)[k])]
    IN  SelectSeq(keys, LAMBDA key : key.present)

\* the values the inspected paths hold for a Hive key name
HiveValuesOf(name) ==
    {InspectedKeys[k].value : k \in {j \in 1..Len(InspectedKeys) : InspectedKeys[j].name = name}}

\* the values Inspect collects for a name
CollectedValuesOf(name) ==
    IF discovery.kind = "hive" THEN HiveValuesOf(name) ELSE PositionalValuesOf(name)

\* a sequence without the later occurrences of its elements
RECURSIVE FirstOccurrences(_)
FirstOccurrences(seq) ==
    IF seq = <<>> THEN <<>>
    ELSE LET front == SubSeq(seq, 1, Len(seq) - 1)
             last == seq[Len(seq)]
         IN  IF last \in Range(front)
             THEN FirstOccurrences(front)
             ELSE Append(FirstOccurrences(front), last)

\* C12: Inspect(paths) of the schema-positional discovery returns, for every
\* list of paths, a schema whose fields are exactly the configured field names
\* in the configured order; of each path only the first |field names| segments
\* are used, segment k supplying a value of field name k.
C12_InspectYieldsConfiguredFields ==
    (pc = "inspected" /\ discovery.kind = "schema") =>
        /\ inspected.status = "OK"
        /\ FieldNameList(inspected.schema) = discovery.field_names
        /\ \A k \in 1..Len(inspected.schema) :
               inspected.schema[k].type = "int32" <=>
                   \A value \in PositionalValuesOf(inspected.schema[k].name) :
                       AllDigits(value)

\* C13: a field of an inspected schema is int32 exactly when every value
\* collected for its name consists of the digits 0-9 only, and utf8 otherwise.
C13_Int32IffAllValuesAreDigits ==
    pc = "inspected" =>
        \A k \in 1..Len(inspected.schema) :
            LET f == inspected.schema[k]
            IN  /\ f.type \in {"int32", "utf8"}
                /\ f.type = "int32" <=>
                       \A value \in CollectedValuesOf(f.name) :
                           \A c \in Range(value) : c \in Range(Digits)

\* an inspected schema with an int32 field and with a utf8 field among whose
\* values one is all digits and another is not
C13_Witness ==
    /\ pc = "inspected"
    /\ \E f \in Range(inspected.schema) :
           f.type = "int32" /\ CollectedValuesOf(f.name) # {}
    /\ \E f \in Range(inspected.schema) :
           /\ f.type = "utf8"
           /\ \E v, w \in CollectedValuesOf(f.name) :
                  /\ v # <<>> /\ AllDigits(v)
                  /\ ~AllDigits(w)

\* C14: Inspect(paths) of the Hive discovery returns one field per distinct key
\* name of a `key=value` segment of the paths, in the order in which the key
\* names are first seen; a segment without `=` adds no field.
C14_HiveInspectFirstSeenOrder ==
    (pc = "inspected" /\ discovery.kind = "hive") =>
        /\ inspected.status = "OK"
        /\ FieldNameList(inspected.schema) =
               FirstOccurrences([k \in 1..Len(InspectedKeys) |-> InspectedKeys[k].name])

---------------------------------------------------------------------------
(* Properties of Parse(path) under concurrent callers *)

\* Parse(path) run by one caller alone, from segment number `at` on with the
\* expressions collected so far
RECURSIVE ParseAlone(_, _, _, _)
ParseAlone(s, segs, at, exprs) ==
    IF at > Len(segs) THEN Ok(and_(exprs))
    ELSE LET parsed == ParseSegment(s, segs[at], at - 1)
         IN  IF parsed.status # "OK" THEN parsed
             ELSE ParseAlone(s, segs, at + 1,
                             IF parsed.expr = TrueExpression THEN exprs
                             ELSE Append(exprs, parsed.expr))

\* the schemes of the library, as opposed to a scheme around a caller's function
BuiltIn(s) == s.kind \in {"default", "segment_dictionary", "schema", "hive"}

\* what every returned Parse(path) of a concurrent caller returned is what a
\* single Parse(path) on the scheme returns
ConcurrentResultsAgree ==
    BuiltIn(scheme) =>
        \A c \in Callers :
            callers[c].pc = "done" =>
                callers[c].result =
                    ParseAlone(scheme, SplitAbstractPath(callers[c].path), 1, <<>>)

\* C16: Parse(P) of a built-in scheme is deterministic and leaves the scheme
\* unchanged: whatever the number, order and interleaving of the Parse calls of
\* concurrent callers, each returns for P what a single call on the scheme as
\* constructed returns.
C16_ParseIsDeterministic ==
    /\ []ConcurrentResultsAgree
    /\ [][variant_' = variant_]_vars

\* two callers parsed the same path of two keys to the same conjunction, the
\* second caller having gone through its whole call while a third call, of
\* the first caller, is inside its loop
C16_Witness ==
    /\ BuiltIn(scheme)
    /\ callers[1].pc = "loop"
    /\ callers[1].it = 2
    /\ callers[2].pc = "done"
    /\ callers[2].path = callers[1].path
    /\ callers[2].result.status = "OK"
    /\ callers[2].result.expr.kind = "and"

---------------------------------------------------------------------------
(* Properties of FileSource *)

\* the SourceType of the source a constructor call builds
BuiltType(call) == IF call.from = "path" THEN PATH ELSE BUFFER

\* C18: two PATH sources are equal exactly when their path strings are equal
\* and their filesystem pointers are the same; two BUFFER sources exactly when
\* their buffers hold the same bytes; a PATH source and a BUFFER source are
\* never equal; a source equals itself, and a == b is b == a.
C18_FileSourceEquality ==
    compared.lhs # 0 =>
        LET a == built[compared.lhs]
            b == built[compared.rhs]
        IN  /\ (a.from = "path" /\ b.from = "path") =>
                   (compared.equal <=>
                       (a.path = b.path /\ a.filesystem = b.filesystem))
            /\ (a.from = "buffer" /\ b.from = "buffer") =>
                   (compared.equal <=> a.buffer.bytes = b.buffer.bytes)
            /\ a.from # b.from => ~compared.equal
            /\ compared.self
            /\ compared.reverse = compared.equal

\* two sources of the same path on different file systems compared unequal
C18_Witness ==
    /\ compared.lhs # compared.rhs
    /\ compared.lhs # 0
    /\ built[compared.lhs].from = "path"
    /\ built[compared.rhs].from = "path"
    /\ built[compared.lhs].path = built[compared.rhs].path
    /\ built[compared.lhs].filesystem # built[compared.rhs].filesystem
    /\ ~compared.equal
    /\ compared.self

\* C19: path() of a BUFFER source is the text "<Buffer>" and its filesystem()
\* is null; buffer() of a PATH source is null; type() is PATH exactly for a
\* source built from a path and BUFFER exactly for one built from a buffer,
\* in every state after the construction.
C19_FileSourceAccessors ==
    /\ \A k \in 1..Len(sources) : FileSourceType(sources[k]) = BuiltType(built[k])
    /\ accessed.source # 0 =>
           LET call == built[accessed.source]
           IN  /\ accessed.type = BuiltType(call)
               /\ call.from = "buffer" =>
                      /\ accessed.path = BufferPath
                      /\ accessed.filesystem = NULLPTR
               /\ call.from = "path" => accessed.buffer = NullBuffer

\* the accessors of a source built from a buffer were read, after a
\* comparison with a source built from the path "<Buffer>"
C19_Witness ==
    /\ accessed.source # 0
    /\ built[accessed.source].from = "buffer"
    /\ accessed.type = BUFFER
    /\ accessed.path = BufferPath
    /\ compared.lhs # 0
    /\ \E k \in 1..Len(built) : built[k].from = "path" /\ built[k].path = BufferPath

---------------------------------------------------------------------------
(* Properties of FileSystemDataSource *)

\* the expression the caller's vector holds at position k, scalar(true) when
\* the vector is shorter
SuppliedPartition(partitions, k) ==
    IF k <= Len(partitions) THEN partitions[k] ELSE TrueExpression

\* C20: a FileSystemDataSource made by any of the three Make entry points,
\* from any number of partition expressions, holds exactly one partition
\* expression per forest node, aligned with the forest: that of the node where
\* the caller supplied one, scalar(true) where not.
C20_OnePartitionPerForestNode ==
    made # NotMade =>
        /\ Len(datasource.partitions_) = Len(datasource.forest_)
        /\ made.entry = "forest" =>
               /\ datasource.forest_ = made.forest
               /\ \A k \in 1..Len(made.forest) :
                      datasource.partitions_[k] = SuppliedPartition(made.partitions, k)
        /\ made.entry # "forest" =>
               /\ Len(datasource.forest_) = Len(made.stats)
               /\ \A j \in 1..Len(made.stats) :
                      \E k \in 1..Len(datasource.forest_) :
                          /\ datasource.forest_[k] = made.stats[j]
                          /\ datasource.partitions_[k] =
                                 SuppliedPartition(made.partitions, j)

\* a data source made from a forest of two nodes and three expressions, and
\* none of the expressions scalar(true)
C20_Witness ==
    /\ made.entry = "forest"
    /\ Len(made.forest) = 2
    /\ Len(made.partitions) = 3
    /\ \A k \in 1..3 : made.partitions[k] # TrueExpression
    /\ Len(datasource.partitions_) = 2

\* the positions of the forest's nodes that hold the given stats
NodesOf(stats) == {k \in 1..Len(datasource.forest_) : datasource.forest_[k] = stats}

\* C21: a data source made from stats alone has scalar(true) for every node;
\* one made with a vector of expressions has, for every node the vector covers,
\* the expression supplied for that node, and scalar(true) for every node it
\* does not cover.
C21_UncoveredNodesAreTrue ==
    /\ made.entry = "stats" =>
           \A k \in 1..Len(datasource.forest_) :
               datasource.partitions_[k] = TrueExpression
    /\ made.entry = "stats and partitions" =>
           \A j \in 1..Len(made.stats) :
               /\ NodesOf(made.stats[j]) # {}
               /\ \A k \in NodesOf(made.stats[j]) :
                      datasource.partitions_[k] =
                          IF j <= Len(made.partitions) THEN made.partitions[j]
                          ELSE TrueExpression
    /\ made.entry = "forest" =>
           \A k \in 1..Len(made.forest) :
               datasource.partitions_[k] =
                   IF k <= Len(made.partitions) THEN made.partitions[k]
                   ELSE TrueExpression

\* a data source made from three stats that are not in the order of their
\* paths and from two expressions, the second of them not scalar(true): the
\* node of the third stats is not covered
C21_Witness ==
    /\ made.entry = "stats and partitions"
    /\ Len(made.stats) = 3
    /\ StringLess(made.stats[2].path, made.stats[1].path)
    /\ Len(made.partitions) = 2
    /\ made.partitions[1] = TrueExpression
    /\ made.partitions[2] # TrueExpression
    /\ \E k \in 1..3 : datasource.partitions_[k] = made.partitions[2]

---------------------------------------------------------------------------
(* Fragment retrieval *)

\* the positions of the file nodes of the forest the data source was made from
FileNodes == {k \in 1..Len(made.forest) : made.forest[k].type = "File"}

\* the expression supplied for node k of the forest
NodeExpression(k) ==
    IF k <= Len(made.partitions) THEN made.partitions[k] ELSE TrueExpression

\* the directories above node k: those whose path, followed by the separator
\* and at least one more character, is the path of node k
DirectoriesAbove(k) ==
    {j \in 1..Len(made.forest) :
        /\ made.forest[j].type = "Directory"
        /\ \E n \in 1..Len(made.forest[k].path) :
              made.forest[j].path \o <<kSep>> = SubSeq(made.forest[k].path, 1, n)
        /\ Len(made.forest[j].path) + 1 < Len(made.forest[k].path)}

\* the expressions that bear on node k: its own, those of the directories
\* above it and the source-level one
ExpressionsOn(k) ==
    {NodeExpression(k)} \cup {NodeExpression(j) : j \in DirectoriesAbove(k)}
        \cup {SourcePartition}

\* whether some assignment of values to the fields makes every expression of
\* the set true: no two of its equalities give one field two values
Satisfiable(exprs) ==
    LET equalities == {e \in UNION {Range(Conjuncts(x)) : x \in exprs} : e.kind = "equal"}
    IN  \A e, f \in equalities : e.name = f.name => e.value = f.value

\* the positions of the nodes the fragments yielded so far belong to
YieldedNodes ==
    {k \in 1..Len(made.forest) :
        \E n \in 1..Len(scan.fragments) :
            FileSourcePath(scan.fragments[n].source_) = made.forest[k].path}

\* C22: GetFragmentsImpl never yields more fragments than the forest has file
\* nodes, and yields exactly that many when the scan predicate is scalar(true).
C22_FragmentCount ==
    scan.active =>
        /\ Len(scan.fragments) <= Cardinality(FileNodes)
        /\ (Exhausted(datasource, scan) /\ EqualsTrue(scan.options.filter))
               => Len(scan.fragments) = Cardinality(FileNodes)

\* an exhausted scan with scalar(true) of a forest of two directories and
\* three files, one of which has contradicting expressions above it
C22_Witness ==
    /\ Exhausted(datasource, scan)
    /\ EqualsTrue(scan.options.filter)
    /\ Len(made.forest) = 5
    /\ Len(scan.fragments) = 3
    /\ ~Satisfiable(ExpressionsOn(4))

C24_PruningIsConservative ==
    Exhausted(datasource, scan) =>
        \A k \in FileNodes :
            Satisfiable(ExpressionsOn(k) \cup {scan.options.filter}) => k \in YieldedNodes

\* an exhausted scan with a predicate on field a: one file was left out, one
\* whose expressions say nothing about a was yielded, and so was one whose
\* directory has the value asked for
C24_Witness ==
    /\ Exhausted(datasource, scan)
    /\ scan.options.filter = EqualExpression(NameA, MakeScalar("int32", 1, <<>>))
    /\ Len(made.forest) = 5
    /\ 5 \in YieldedNodes
    /\ ExpressionsOn(5) = {TrueExpression, SourcePartition}
    /\ 2 \in YieldedNodes
    /\ NodeExpression(1) = scan.options.filter
    /\ 4 \notin YieldedNodes

\* whether the iterator leaves node k out
Pruned(k) ==
    ProvablyUnsatisfiable(scan.options.filter, AccumulatedOperands(datasource, k))

\* the iterator has evaluated exactly the nodes before its cursor, one for
\* each pull, and never more nodes than the forest has
OneNodePerPull ==
    scan.active =>
        /\ scan.cursor = scan.pulls + 1
        /\ scan.pulls <= Len(datasource.forest_)
        /\ scan.pulls = Len(datasource.forest_) => Exhausted(datasource, scan)
        /\ Len(scan.fragments) <= scan.pulls

\* the exhausted iterator of a call with the options of the call before it
\* has yielded the same fragments
SameSequenceAgain ==
    (Exhausted(datasource, scan) /\ previous.active
        /\ previous.options = scan.options)
            => scan.fragments = previous.fragments

\* the iterator is exhausted and has yielded every file node that is not
\* pruned
EveryFileYielded ==
    /\ Exhausted(datasource, scan)
    /\ \A k \in FileNodes : ~Pruned(k) => k \in YieldedNodes

\* C25: the enumeration is finite and driven by the pulls: each pull evaluates
\* one node and filters it or yields one fragment, the iterator is exhausted
\* after as many pulls as the forest has nodes, a consumer that keeps pulling
\* gets every file node that is not pruned, and a new call with the same
\* options yields the same fragments again.
C25_EnumerationIsFinite ==
    /\ []OneNodePerPull
    /\ [][scan'.pulls = scan.pulls + 1 =>
             /\ scan'.cursor = scan.cursor + 1
             /\ Len(scan'.fragments) \in {Len(scan.fragments), Len(scan.fragments) + 1}]_vars
    /\ scan.active ~> EveryFileYielded
    /\ []SameSequenceAgain

\* the second call with the same options on a forest of five nodes is
\* exhausted after five pulls, two of which yielded a fragment
C25_Witness ==
    /\ Exhausted(datasource, scan)
    /\ previous.active
    /\ previous.options = scan.options
    /\ ~EqualsTrue(scan.options.filter)
    /\ scan.pulls = 5
    /\ Len(scan.fragments) = 2

---------------------------------------------------------------------------
(* PartitionSchemeOrDiscovery *)

\* C26: a PartitionSchemeOrDiscovery holds exactly one alternative: when the
\* pointer last stored was a scheme, scheme() is that scheme and discovery()
\* is null; when it was a discovery, discovery() is that discovery and
\* scheme() is null.
C26_HoldsOneAlternative ==
    /\ last_stored.kind = "scheme" =>
           /\ scheme # NullScheme
           /\ scheme = last_stored.scheme
           /\ discovery = NullDiscovery
    /\ last_stored.kind = "discovery" =>
           /\ discovery # NullDiscovery
           /\ discovery = last_stored.discovery
           /\ scheme = NullScheme

\* a discovery was assigned to an object that held a scheme, after at least
\* two earlier stores
C26_Witness ==
    /\ last_stored.kind = "discovery"
    /\ last_stored.before = "scheme"
    /\ last_stored.stores >= 3
    /\ discovery = last_stored.discovery
    /\ last_stored.discovery = HivePartitionSchemeDiscovery

---------------------------------------------------------------------------
(* Discovery followed by Parse *)

\* the scheme Finish makes of the schema Inspect returned
FinishedInspection == DiscoveryFinish(discovery, inspected.schema)

\* Parse of the k-th inspected path by that scheme
ParseOfInspected(k) ==
    ParseAlone(FinishedInspection.scheme, SplitAbstractPath(inspect_paths[k]), 1, <<>>)

\* C27: for every list of paths, Finish of the schema that the Hive discovery's
\* Inspect returns succeeds, and Parse of the resulting Hive scheme succeeds on
\* every one of the inspected paths.
C27_HiveRoundTrip ==
    (pc = "inspected" /\ discovery.kind = "hive") =>
        /\ inspected.status = "OK"
        /\ FinishedInspection.status = "OK"
        /\ \A k \in 1..Len(inspect_paths) : ParseOfInspected(k).status = "OK"

\* C28: for every list of field names and every list of paths, the empty list
\* and paths with fewer segments than field names included, the schema that
\* the positional discovery's Inspect returns has every configured field name,
\* so that Finish of that schema succeeds.
C28_SchemaRoundTrip ==
    (pc = "inspected" /\ discovery.kind = "schema") =>
        /\ inspected.status = "OK"
        /\ \A k \in 1..Len(discovery.field_names) :
               GetFieldIndex(inspected.schema, discovery.field_names[k]) # -1
        /\ FinishedInspection.status = "OK"

---------------------------------------------------------------------------
(* FileSource equality and compression *)

\* C29: the equality of two FileSources does not depend on their compression:
\* two PATH sources of the same path and filesystem, and two BUFFER sources of
\* the same bytes, are equal also when compression() of the one differs from
\* compression() of the other.
C29_EqualityIgnoresCompression ==
    (compared.lhs # 0
        /\ FileSourceCompression(sources[compared.lhs])
               # FileSourceCompression(sources[compared.rhs])) =>
        LET a == built[compared.lhs]
            b == built[compared.rhs]
        IN  /\ (a.from = "path" /\ b.from = "path"
                    /\ a.path = b.path /\ a.filesystem = b.filesystem)
                   => (compared.equal /\ compared.reverse)
            /\ (a.from = "buffer" /\ b.from = "buffer"
                    /\ a.buffer.bytes = b.buffer.bytes)
                   => (compared.equal /\ compared.reverse)

\* a GZIP source and an UNCOMPRESSED source of the same path on the same file
\* system compared equal
C29_Witness ==
    /\ compared.lhs # 0
    /\ built[compared.lhs].from = "path"
    /\ built[compared.rhs].from = "path"
    /\ built[compared.lhs].path = built[compared.rhs].path
    /\ built[compared.lhs].filesystem = built[compared.rhs].filesystem
    /\ FileSourceCompression(sources[compared.lhs]) = "GZIP"
    /\ FileSourceCompression(sources[compared.rhs]) = "UNCOMPRESSED"
    /\ compared.equal

---------------------------------------------------------------------------
(* Block placements of a DataFrameBlockCreator *)

\* CreateBlocks has returned without an error
BlocksCreated == convert.pc = "write" \/ (convert.pc = "done" /\ convert.status = "OK")

\* the columns (counted from 0) whose output type is the given one
ColumnsOfType(type) ==
    {c \in 0..(NumColumns - 1) : creator.column_types_[c + 1] = type}

\* the block that WriteColumn of the column writes to
BlockOfColumn(c) ==
    LET type == creator.column_types_[c + 1]
    IN  CASE type = "CATEGORICAL" -> creator.categorical_blocks_[c]
          [] type = "DATETIME_WITH_TZ" -> creator.datetimetz_blocks_[c]
          [] type = "EXTENSION" -> creator.extension_blocks_[c]
          [] OTHER -> creator.blocks_[type]

\* the columns that share their block with the column, itself included
SharingBlock(c) ==
    IF creator.column_types_[c + 1] \in OwnBlockTypes THEN {c}
    ELSE ColumnsOfType(creator.column_types_[c + 1])

\* C30: after CreateBlocks the columns of one consolidated block type have
\* the placements 0..n-1 in the order of the columns, n being the number of
\* columns their block was made with; every categorical, timezone-aware
\* datetime and extension column has a one-column block of its own and
\* placement 0; so no two columns write the same slot of the same block.
C30_PlacementsAreDistinct ==
    BlocksCreated =>
        \A c \in 0..(NumColumns - 1) :
            LET type == creator.column_types_[c + 1]
                placement == creator.column_block_placement_[c + 1]
                block == BlockOfColumn(c)
            IN  /\ type \in OwnBlockTypes =>
                       /\ placement = 0
                       /\ block.num_columns_ = 1
                /\ type \notin OwnBlockTypes =>
                       /\ placement = Cardinality({d \in ColumnsOfType(type) : d < c})
                       /\ block.num_columns_ = Cardinality(ColumnsOfType(type))
                /\ placement < block.num_columns_
                /\ \A d \in SharingBlock(c) \ {c} :
                       creator.column_block_placement_[d + 1] # placement
                /\ ~block.overrun
                /\ block.writers[placement + 1] \subseteq {c}
                /\ c \in convert.written =>
                       /\ block.writers[placement + 1] = {c}
                       /\ block.placement_data_[placement + 1] = c

\* a table of an int64 column, a dictionary column and a second int64 column
\* was written: the int64 block has the columns 0 and 2 at its slots 0 and 1,
\* the categorical block has column 1 at its only slot
C30_Witness ==
    /\ convert.pc = "done"
    /\ convert.status = "OK"
    /\ NumColumns = 3
    /\ creator.column_types_ = <<"INT64", "CATEGORICAL", "INT64">>
    /\ creator.column_block_placement_ = <<0, 0, 1>>
    /\ creator.blocks_["INT64"].placement_data_ = <<0, 2>>
    /\ creator.categorical_blocks_[1].placement_data_ = <<1>>

===========================================================================
